---------------------------- MODULE Spec2Model ----------------------------
(***************************************************************************)
(* Model of the feature-based image morph (Beier & Neely field warp) of    *)
(* src/src/Image.cpp, src/src/Image.hpp and src/src/LineSegment.hpp.       *)
(*                                                                         *)
(* The program computes in C++ `double`.  The model keeps that arithmetic: *)
(* a double is a sign, a 53-bit significand and a binary exponent, and     *)
(* every operation rounds to nearest, ties to even, as IEEE-754 binary64   *)
(* does.  Significands do not fit the 32-bit integers of TLC, so they are  *)
(* natural numbers written as sequences of 15-bit limbs, least significant *)
(* limb first.  Exponent overflow and subnormal results cannot occur for   *)
(* the magnitudes of the model and are not represented; the sign of a zero *)
(* is not represented either (no operation of the program depends on it).  *)
(***************************************************************************)
EXTENDS Integers, Sequences, FiniteSets, TLC

(***************************************************************************)
(* Natural numbers of arbitrary size: limbs base 2^15, little endian,      *)
(* no high zero limb; zero is the empty sequence.                          *)
(***************************************************************************)
LimbBits == 15

LimbBase == 32768

Limb(a, i) == IF i <= Len(a) THEN a[i] ELSE 0

RECURSIVE BStrip(_)
BStrip(a) ==
  IF Len(a) = 0 THEN << >>
  ELSE IF a[Len(a)] = 0 THEN BStrip(SubSeq(a, 1, Len(a) - 1)) ELSE a

RECURSIVE BFromInt(_)
BFromInt(n) == IF n = 0 THEN << >> ELSE <<n % LimbBase>> \o BFromInt(n \div LimbBase)

RECURSIVE BCmpFrom(_, _, _)
BCmpFrom(a, b, i) ==
  IF i = 0 THEN 0
  ELSE IF a[i] > b[i] THEN 1
  ELSE IF a[i] < b[i] THEN -1
  ELSE BCmpFrom(a, b, i - 1)

BCmp(a, b) ==
  IF Len(a) > Len(b) THEN 1
  ELSE IF Len(a) < Len(b) THEN -1
  ELSE BCmpFrom(a, b, Len(a))

RECURSIVE BAddC(_, _, _, _)
BAddC(a, b, i, c) ==
  IF i > Len(a) /\ i > Len(b) THEN (IF c = 0 THEN << >> ELSE <<c>>)
  ELSE <<(Limb(a, i) + Limb(b, i) + c) % LimbBase>>
         \o BAddC(a, b, i + 1, (Limb(a, i) + Limb(b, i) + c) \div LimbBase)

BAdd(a, b) == BAddC(a, b, 1, 0)

RECURSIVE BSubC(_, _, _, _)
BSubC(a, b, i, br) ==
  IF i > Len(a) THEN << >>
  ELSE <<(a[i] - Limb(b, i) - br + LimbBase) % LimbBase>>
         \o BSubC(a, b, i + 1, IF a[i] - Limb(b, i) - br < 0 THEN 1 ELSE 0)

\* a - b for a >= b
BSub(a, b) == BStrip(BSubC(a, b, 1, 0))

RECURSIVE BMulSC(_, _, _, _)
BMulSC(a, k, i, c) ==
  IF i > Len(a) THEN (IF c = 0 THEN << >> ELSE <<c>>)
  ELSE <<(a[i] * k + c) % LimbBase>> \o BMulSC(a, k, i + 1, (a[i] * k + c) \div LimbBase)

\* a * k for a small factor 0 <= k < 2^15
BMulS(a, k) == IF k = 0 THEN << >> ELSE BMulSC(a, k, 1, 0)

BShlLimbs(a, n) == IF Len(a) = 0 \/ n = 0 THEN a ELSE [i \in 1..n |-> 0] \o a

RECURSIVE BMulFrom(_, _, _)
BMulFrom(a, b, j) ==
  IF j > Len(b) THEN << >>
  ELSE BAdd(BShlLimbs(BMulS(a, b[j]), j - 1), BMulFrom(a, b, j + 1))

BMul(a, b) == BMulFrom(a, b, 1)

\* a * 2^n
BShl(a, n) == BShlLimbs(BMulS(a, 2 ^ (n % LimbBits)), n \div LimbBits)

\* floor(d / 2^r) for 0 <= r < 15
BShrBits(d, r) ==
  IF r = 0 \/ Len(d) = 0 THEN d
  ELSE BStrip([i \in 1..Len(d) |->
                 (d[i] \div (2 ^ r)) + (Limb(d, i + 1) % (2 ^ r)) * (2 ^ (LimbBits - r))])

\* floor(a / 2^n)
BShr(a, n) ==
  BShrBits(IF n \div LimbBits >= Len(a) THEN << >> ELSE SubSeq(a, n \div LimbBits + 1, Len(a)),
           n % LimbBits)

RECURSIVE IntBitLen(_)
IntBitLen(n) == IF n = 0 THEN 0 ELSE 1 + IntBitLen(n \div 2)

BBitLen(a) == IF Len(a) = 0 THEN 0 ELSE LimbBits * (Len(a) - 1) + IntBitLen(a[Len(a)])

\* the number of low limbs of a that are zero
RECURSIVE BLowZeros(_, _)
BLowZeros(a, i) == IF i > Len(a) \/ a[i] # 0 THEN i - 1 ELSE BLowZeros(a, i + 1)

RECURSIVE IntTrailZeros(_)
IntTrailZeros(n) == IF n % 2 = 1 THEN 0 ELSE 1 + IntTrailZeros(n \div 2)

\* the number of low zero bits of a > 0
BTrailZeros(a) == LimbBits * BLowZeros(a, 1) + IntTrailZeros(a[BLowZeros(a, 1) + 1])

\* the value of a natural number below 2^31 as an integer
RECURSIVE BToIntFrom(_, _)
BToIntFrom(a, i) == IF i > Len(a) THEN 0 ELSE a[i] + LimbBase * BToIntFrom(a, i + 1)

BToInt(a) == BToIntFrom(a, 1)

\* the top (at most 30) bits of a, as an integer, after dropping its low n bits
BTop(a, n) == BToInt(BShr(a, n))

(***************************************************************************)
(* Quotient and remainder, one limb of quotient at a time.  The quotient   *)
(* digit is estimated from the leading bits of remainder and divisor (the  *)
(* estimate never exceeds the digit) and then corrected upwards.           *)
(***************************************************************************)
RECURSIVE BDigitFix(_, _, _)
BDigitFix(r, d, q) ==
  \* r = rem + q*d with 0 <= rem; raise q until rem < d
  IF BCmp(r, d) >= 0 THEN BDigitFix(BSub(r, d), d, q + 1) ELSE <<q, r>>

BDigitFrom(r, d, est) == BDigitFix(BSub(r, BMulS(d, est)), d, est)

\* <<floor(r/d), r mod d>> for r < d * 2^15; sh = BBitLen(d) - 15 and dt = BTop(d, sh) + 1
\* for a divisor of more than one limb
BDigit(r, d, sh, dt) ==
  IF BCmp(r, d) < 0 THEN <<0, r>>
  ELSE IF Len(d) = 1 THEN <<BToInt(r) \div d[1], BFromInt(BToInt(r) % d[1])>>
  ELSE BDigitFrom(r, d, BTop(r, sh) \div dt)

RECURSIVE BDivFrom(_, _, _, _, _, _, _), BDivNext(_, _, _, _, _, _, _)
BDivFrom(a, d, sh, dt, i, r, q) ==
  \* limbs a[i..1] still to bring down; r the running remainder, q the quotient limbs found (little endian)
  IF i = 0 THEN <<BStrip(q), r>>
  ELSE BDivNext(a, d, sh, dt, i, q,
                BDigit(BAdd(BShlLimbs(r, 1), IF a[i] = 0 THEN << >> ELSE <<a[i]>>), d, sh, dt))

\* dg = <<digit, remainder>> for limb i
BDivNext(a, d, sh, dt, i, q, dg) ==
  IF dg[1] >= 0 THEN BDivFrom(a, d, sh, dt, i - 1, dg[2], <<dg[1]>> \o q) ELSE << >>

\* <<floor(a/d), a mod d>> for d > 0
BDivMod(a, d) ==
  BDivFrom(a, d, BBitLen(d) - LimbBits,
           IF Len(d) = 1 THEN 0 ELSE BTop(d, BBitLen(d) - LimbBits) + 1, Len(a), << >>, << >>)

(***************************************************************************)
(* Integer square root by Newton's iteration from above:                   *)
(* <<floor(sqrt(a)), a - floor(sqrt(a))^2>>.                               *)
(***************************************************************************)
RECURSIVE ISqrtFrom(_, _)
ISqrtFrom(n, g) ==
  \* g >= floor(sqrt(n)), g > 0
  IF (g + n \div g) \div 2 >= g THEN g ELSE ISqrtFrom(n, (g + n \div g) \div 2)

\* floor(sqrt(n)) for 0 <= n < 2^30
ISqrt(n) == IF n = 0 THEN 0 ELSE ISqrtFrom(n, 32768)

IsSquare(n) == ISqrt(n) * ISqrt(n) = n

\* one step from any g > 0 yields a value >= floor(sqrt(a))
BSqrtStep(a, g) == BShr(BAdd(g, BDivMod(a, g)[1]), 1)

RECURSIVE BSqrtNewton(_, _)
BSqrtNewton(a, g) ==
  \* g >= floor(sqrt(a)), and g is the root once g^2 <= a
  IF BCmp(BMul(g, g), a) <= 0 THEN <<g, BSub(a, BMul(g, g))>>
  ELSE BSqrtNewton(a, BSqrtStep(a, g))

\* the even number of low bits of a to set aside for k or k + 1 leading bits to remain
BSqrtShift(a, k) == IF BBitLen(a) <= k + 1 THEN 0 ELSE 2 * ((BBitLen(a) - k) \div 2)

\* r0 * 2^15 + q + 2, scaled: the root r0 of the leading bits hi, corrected to first
\* order with the 14 bits lo that follow them
BSqrtCorrect(hi, lo, r0, sh) ==
  BShl(BAdd(BShlLimbs(BFromInt(r0), 1), BFromInt(((hi - r0 * r0) * 16384 + lo) \div r0 + 2)),
       sh \div 2)

BSqrtLead(a, sh, hi) == BSqrtCorrect(hi, Limb(BShr(a, sh + 16), 1) % 16384, ISqrt(hi), sh)

\* a first approximation of sqrt(a)
BSqrtGuess(a) ==
  IF BBitLen(a) > 60 THEN BSqrtLead(a, BSqrtShift(a, 59), BTop(a, BSqrtShift(a, 59) + 30))
  ELSE BShl(BFromInt(ISqrt(BTop(a, BSqrtShift(a, 29))) + 1), BSqrtShift(a, 29) \div 2)

BSqrtRem(a) ==
  IF Len(a) = 0 THEN << << >>, << >> >> ELSE BSqrtNewton(a, BSqrtStep(a, BSqrtGuess(a)))

(***************************************************************************)
(* C++ double (IEEE-754 binary64).  A finite nonzero value is written      *)
(* s * m * 2^e with s in {1,-1} and m odd, m < 2^53; zero has m = 0.       *)
(***************************************************************************)
DblMantDig == 53

NaN == [k |-> "nan", s |-> 1, m |-> << >>, e |-> 0]

Inf(s) == [k |-> "inf", s |-> s, m |-> << >>, e |-> 0]

Zero == [k |-> "fin", s |-> 1, m |-> << >>, e |-> 0]

One == [k |-> "fin", s |-> 1, m |-> <<1>>, e |-> 0]

IsNaN(x) == x.k = "nan"

IsInf(x) == x.k = "inf"

IsZero(x) == x.k = "fin" /\ Len(x.m) = 0

\* s * N * 2^e with N made odd, for 0 < N < 2^53
Canon(s, N, e) ==
  [k |-> "fin", s |-> s, m |-> BShr(N, BTrailZeros(N)), e |-> e + BTrailZeros(N)]

\* s * q * 2^e rounded to nearest, ties to even, where M = 2 q + (the first bit dropped)
\* has 54 bits and stk tells of a nonzero bit dropped after the first
RoundBits(s, M, e, stk) ==
  Canon(s, IF M[1] % 2 = 1 /\ (stk \/ M[1] % 4 = 3) THEN BAdd(BShr(M, 1), <<1>>) ELSE BShr(M, 1),
        e)

\* the double nearest to s * N * 2^e (exactly that value, or a little more when
\* sticky; a sticky N has 55 bits or more)
RoundTo(s, N, e, sticky) ==
  IF Len(N) = 0 THEN Zero
  ELSE IF BBitLen(N) <= DblMantDig THEN Canon(s, N, e)
  ELSE RoundBits(s, BShr(N, BBitLen(N) - DblMantDig - 1), e + BBitLen(N) - DblMantDig,
                 sticky \/ BTrailZeros(N) < BBitLen(N) - DblMantDig - 1)

\* s * pr[1] * 2^e rounded, for a quotient or root pr[1] with remainder pr[2]
RoundPair(s, pr, e) == RoundTo(s, pr[1], e, Len(pr[2]) > 0)

\* (double) n for an int n
FromInt(n) ==
  RoundTo(IF n < 0 THEN -1 ELSE 1,
          IF n = -2147483647 - 1 THEN <<0, 0, 2>> ELSE BFromInt(IF n < 0 THEN -n ELSE n),
          0, FALSE)

\* the dyadic literal n * 2^k
Dyadic(n, k) == IF n = 0 THEN Zero ELSE [FromInt(n) EXCEPT !.e = @ + k]

FNeg(x) == IF IsNaN(x) \/ IsZero(x) THEN x ELSE [x EXCEPT !.s = -(x.s)]

FAbs(x) == IF IsNaN(x) THEN x ELSE [x EXCEPT !.s = 1]

\* the position above the leading bit of finite nonzero x: 2^(Top-1) <= |x| < 2^Top
Top(x) == BBitLen(x.m) + x.e

\* the exponent at which x and y are added; a y below the rounding position of x
\* counts as one unit 8 places below it
ExpMin(x, y) ==
  IF Top(x) - Top(y) > 60 THEN x.e - (56 - BBitLen(x.m))
  ELSE IF x.e < y.e THEN x.e ELSE y.e

\* x + y = (x.s * xm + y.s * ym) * 2^em, rounded
FAddAligned(x, y, xm, ym, em) ==
  RoundTo(IF x.s = y.s \/ BCmp(xm, ym) >= 0 THEN x.s ELSE y.s,
          IF x.s = y.s THEN BAdd(xm, ym)
          ELSE IF BCmp(xm, ym) >= 0 THEN BSub(xm, ym) ELSE BSub(ym, xm),
          em, Top(x) - Top(y) > 60)

\* x + y for finite nonzero x, y with Top(x) >= Top(y)
FAddFin(x, y) ==
  FAddAligned(x, y, BShl(x.m, x.e - ExpMin(x, y)),
              IF Top(x) - Top(y) > 60 THEN <<1>> ELSE BShl(y.m, y.e - ExpMin(x, y)),
              ExpMin(x, y))

FAdd(x, y) ==
  IF IsNaN(x) \/ IsNaN(y) THEN NaN
  ELSE IF IsInf(x) THEN (IF IsInf(y) /\ x.s # y.s THEN NaN ELSE x)
  ELSE IF IsInf(y) THEN y
  ELSE IF IsZero(x) THEN y
  ELSE IF IsZero(y) THEN x
  ELSE FAddFin(IF Top(x) >= Top(y) THEN x ELSE y, IF Top(x) >= Top(y) THEN y ELSE x)

FSub(x, y) == FAdd(x, FNeg(y))

FMul(x, y) ==
  IF IsNaN(x) \/ IsNaN(y) THEN NaN
  ELSE IF IsInf(x) \/ IsInf(y)
       THEN (IF IsZero(x) \/ IsZero(y) THEN NaN ELSE Inf(x.s * y.s))
  ELSE IF IsZero(x) \/ IsZero(y) THEN Zero
  ELSE RoundTo(x.s * y.s, BMul(x.m, y.m), x.e + y.e, FALSE)

\* limbs put in front of x.m for a quotient by y.m of 56 bits or more
DivWiden(x, y) ==
  IF BBitLen(y.m) + 57 - BBitLen(x.m) <= 0 THEN 0
  ELSE (BBitLen(y.m) + 57 - BBitLen(x.m) + LimbBits - 1) \div LimbBits

FDiv(x, y) ==
  IF IsNaN(x) \/ IsNaN(y) THEN NaN
  ELSE IF IsInf(x) THEN (IF IsInf(y) THEN NaN ELSE Inf(x.s * y.s))
  ELSE IF IsInf(y) THEN Zero
  ELSE IF IsZero(y) THEN (IF IsZero(x) THEN NaN ELSE Inf(x.s * y.s))
  ELSE IF IsZero(x) THEN Zero
  ELSE RoundPair(x.s * y.s, BDivMod(BShlLimbs(x.m, DivWiden(x, y)), y.m),
                 x.e - y.e - LimbBits * DivWiden(x, y))

\* pairs of bits put in front of m0: none for a square that fits an int, otherwise
\* those of a root of 54 bits
SqrtWiden(m0) ==
  IF BBitLen(m0) <= 30 /\ IsSquare(BToInt(m0)) THEN 0
  ELSE (2 * DblMantDig + 2 - BBitLen(m0)) \div 2

\* sqrt(m0 * 2^e0) for e0 even
FSqrtEven(m0, e0) ==
  RoundPair(1, BSqrtRem(BShl(m0, 2 * SqrtWiden(m0))), e0 \div 2 - SqrtWiden(m0))

\* sqrt(x)
FSqrt(x) ==
  IF IsNaN(x) THEN NaN
  ELSE IF IsZero(x) THEN Zero
  ELSE IF x.s < 0 THEN NaN
  ELSE IF IsInf(x) THEN x
  ELSE FSqrtEven(IF x.e % 2 = 1 THEN BShl(x.m, 1) ELSE x.m,
                 IF x.e % 2 = 1 THEN x.e - 1 ELSE x.e)

FSign(x) == IF IsZero(x) THEN 0 ELSE x.s

\* compares the magnitudes of nonzero x, y: -1, 0, 1
FCmpMag(x, y) ==
  IF IsInf(x) THEN (IF IsInf(y) THEN 0 ELSE 1)
  ELSE IF IsInf(y) THEN -1
  ELSE IF Top(x) > Top(y) THEN 1
  ELSE IF Top(x) < Top(y) THEN -1
  ELSE BCmp(BShl(x.m, x.e - (IF x.e < y.e THEN x.e ELSE y.e)),
            BShl(y.m, y.e - (IF x.e < y.e THEN x.e ELSE y.e)))

\* -1, 0, 1 as x <, =, > y, for x, y not NaN
FCmp(x, y) ==
  IF FSign(x) # FSign(y) THEN (IF FSign(x) > FSign(y) THEN 1 ELSE -1)
  ELSE IF FSign(x) = 0 THEN 0
  ELSE FSign(x) * FCmpMag(x, y)

FLt(x, y) == ~IsNaN(x) /\ ~IsNaN(y) /\ FCmp(x, y) < 0

FGt(x, y) == ~IsNaN(x) /\ ~IsNaN(y) /\ FCmp(x, y) > 0

FLe(x, y) == ~IsNaN(x) /\ ~IsNaN(y) /\ FCmp(x, y) <= 0

FEq(x, y) == ~IsNaN(x) /\ ~IsNaN(y) /\ FCmp(x, y) = 0

\* floor(x)
FFloor(x) ==
  IF x.k # "fin" \/ IsZero(x) \/ x.e >= 0 THEN x
  ELSE RoundTo(x.s, IF x.s > 0 THEN BShr(x.m, -(x.e)) ELSE BAdd(BShr(x.m, -(x.e)), <<1>>),
               0, FALSE)

\* the integer part of |x| as a natural number, for finite x of magnitude below 2^31
FTruncMag(x) ==
  IF IsZero(x) THEN << >>
  ELSE IF x.e >= 0 THEN BShl(x.m, x.e)
  ELSE BShr(x.m, -(x.e))

\* does the conversion (int) x have a defined result?
IntConvDefined(x) == x.k = "fin" /\ (IsZero(x) \/ Top(x) <= 31 \/ (x.s < 0 /\ x.m = <<1>> /\ x.e = 31))

\* (int) x: truncation; an undefined conversion yields ub
ToInt(x, ub) ==
  IF ~IntConvDefined(x) THEN ub
  ELSE IF ~IsZero(x) /\ Top(x) > 31 THEN -2147483647 - 1
  ELSE x.s * BToInt(FTruncMag(x))

\* pow(x, y) for the exponents 0 and 1 and for the base 1, which the C library answers exactly
FPow(x, y) == IF IsZero(y) \/ x = One THEN One ELSE x

(***************************************************************************)
(* int arithmetic of the build                                             *)
(***************************************************************************)
IntMin == -2147483647 - 1

IntMax == 2147483647

\* the results an undefined double-to-int conversion produces on the builds in use
\* (x86: INT_MIN, the "integer indefinite"; ARM: 0 for NaN, saturation otherwise)
UBInts == {IntMin, 0, IntMax}

\* n + 1 in int; the overflowing case wraps
IntSucc(n) == IF n = IntMax THEN IntMin ELSE n + 1

\* abs(int)
IntAbs(n) == IF n = IntMin THEN IntMin ELSE IF n < 0 THEN -n ELSE n

Min(x, y) == IF x < y THEN x ELSE y

Max(x, y) == IF x > y THEN x ELSE y

(***************************************************************************)
(* Vec2 (Algebra3)                                                         *)
(***************************************************************************)
Vec2(x, y) == [x |-> x, y |-> y]

VAdd(a, b) == Vec2(FAdd(a.x, b.x), FAdd(a.y, b.y))

VSub(a, b) == Vec2(FSub(a.x, b.x), FSub(a.y, b.y))

\* a * d and d * a
VScale(a, d) == Vec2(FMul(d, a.x), FMul(d, a.y))

\* dot product
VDot(a, b) == FAdd(FMul(a.x, b.x), FMul(a.y, b.y))

\* a / d: d_inv = 1.0 / d, then each component times d_inv
VDivS(a, d) == VScale(a, FDiv(One, d))

VLength2(a) == FAdd(FMul(a.x, a.x), FMul(a.y, a.y))

VLength(a) == FSqrt(VLength2(a))

VPerp(a) == Vec2(FNeg(a.y), a.x)

(***************************************************************************)
(* LineSegment                                                             *)
(***************************************************************************)
LineSegment(s, e) == [start |-> s, end |-> e]

length2(seg) == VLength2(VSub(seg.end, seg.start))

length(seg) == FSqrt(length2(seg))

direction(seg) == VSub(seg.end, seg.start)

perp(seg) == VPerp(direction(seg))

lineParameter(seg, pt) == FDiv(VDot(VSub(seg.end, seg.start), VSub(pt, seg.start)), length2(seg))

signedLineDistance(seg, pt) == FDiv(VDot(VSub(pt, seg.start), perp(seg)), length(seg))

\* abs(v) as the build resolves it: ::abs(int) where only the C overload is
\* visible at the call, std::abs(double) where the library also declares it globally
absBuild(v, absInt, ub) == IF absInt THEN FromInt(IntAbs(ToInt(v, ub))) ELSE FAbs(v)

segmentDistance(seg, pt, u, v, absInt, ub) ==
  IF FLt(u, Zero) THEN VLength(VSub(pt, seg.start))
  ELSE IF FGt(u, One) THEN VLength(VSub(pt, seg.start))
  ELSE absBuild(v, absInt, ub)

\* the target segment itself, whatever t
lerpEnd(seg, target, t) == target

lerp(seg, target, t) ==
  LineSegment(VAdd(VScale(seg.start, FSub(One, t)), VScale(target.start, t)),
              VAdd(VScale(seg.end, FSub(One, t)), VScale(target.end, t)))

(***************************************************************************)
(* Image: w, h, nc and the malloc'ed buffer of w*h*nc bytes.  A byte that  *)
(* was allocated and never written is Uninit.                              *)
(***************************************************************************)
Uninit == -1

Image(w, h, nc) == [w |-> w, h |-> h, nc |-> nc, buf |-> [i \in 1..(w * h * nc) |-> Uninit]]

\* resize without the test of the sign
resizeUnchecked(img, w_, h_, nc_) ==
  IF img.w = w_ /\ img.h = h_ /\ img.nc = nc_ THEN img ELSE Image(w_, h_, nc_)

\* what resize(w_, h_, nc_) returns
resizeReturns(img, w_, h_, nc_) ==
  (img.w = w_ /\ img.h = h_ /\ img.nc = nc_) \/ ~(w_ < 0 \/ h_ < 0 \/ nc_ < 0)

\* resize(w_, h_, nc_): nothing happens if the dimensions match or one of them is negative;
\* otherwise the buffer is replaced by num_bytes fresh bytes (NULL, the empty buffer, for none)
resize(img, w_, h_, nc_) ==
  IF img.w = w_ /\ img.h = h_ /\ img.nc = nc_ THEN img
  ELSE IF w_ < 0 \/ h_ < 0 \/ nc_ < 0 THEN img
  ELSE Image(w_, h_, nc_)

\* the comparison without the channel count
hasSameSizeAs(i1, i2) == i1.w = i2.w /\ i1.h = i2.h

hasSameDimsAs(i1, i2) == i1.w = i2.w /\ i1.h = i2.h /\ i1.nc = i2.nc

\* the offset in a buffer stored column by column
pixelColumnMajor(img, r, c) == (c * img.h + r) * img.nc

\* offset of pixel(row, col) in the buffer
pixel(img, r, c) == (r * img.w + c) * img.nc

\* channel ch of pixel(row, col); a read outside the buffer finds an indeterminate byte
PixAt(img, r, c, ch) ==
  IF pixel(img, r, c) + ch + 1 \in DOMAIN img.buf THEN img.buf[pixel(img, r, c) + ch + 1]
  ELSE Uninit

(***************************************************************************)
(* sampleBilinear(image, loc, sampled_color)                               *)
(***************************************************************************)
\* the four products with the weights of the textbook: pix01 by the column offset,
\* pix10 by the row offset
BilinearResUntransposed(p00, p01, p10, p11, wc0, wc1, wr0, wr1) ==
  FAdd(FAdd(FAdd(FAdd(Zero, FMul(FMul(FromInt(p00), wc1), wr1)),
                 FMul(FMul(FromInt(p01), wc0), wr1)),
            FMul(FMul(FromInt(p10), wc1), wr0)),
       FMul(FMul(FromInt(p11), wc0), wr0))

\* the four `res +=' of one channel
BilinearRes(p00, p01, p10, p11, wc0, wc1, wr0, wr1) ==
  FAdd(FAdd(FAdd(FAdd(Zero, FMul(FMul(FromInt(p00), wc1), wr1)),
                 FMul(FMul(FromInt(p01), wc1), wr0)),
            FMul(FMul(FromInt(p10), wc0), wr1)),
       FMul(FMul(FromInt(p11), wc0), wr0))

\* the index pair without the max(0, ...)
ClampPairUpperOnly(i, n) == <<Min(i, n - 1), Min(Min(i, n - 1) + 1, n - 1)>>

\* the clamped index pair <<i0, i1>> for the raw index i of an axis of n pixels
ClampPair(i, n) == <<Max(0, Min(i, n - 1)), Min(Max(0, Min(i, n - 1)) + 1, n - 1)>>

\* floor(res) of each channel
BilinearFloors(image, loc, row0, col0, pr, pc) ==
  [ch \in 0..(image.nc - 1) |->
     FFloor(BilinearRes(PixAt(image, pr[1], pc[1], ch), PixAt(image, pr[1], pc[2], ch),
                        PixAt(image, pr[2], pc[1], ch), PixAt(image, pr[2], pc[2], ch),
                        FSub(loc.x, FromInt(col0)), FSub(FromInt(IntSucc(col0)), loc.x),
                        FSub(loc.y, FromInt(row0)), FSub(FromInt(IntSucc(row0)), loc.y)))]

\* sampled_color without the loop that zeroes the slots from n on
SampleResultStoredOnly(image, loc, ub, row0, col0, pr, pc, res) ==
  [color |-> [i \in 1..image.nc |-> Min(255, Max(0, ToInt(res[i - 1], ub)))],
   rows  |-> pr,
   cols  |-> pc,
   raw   |-> <<row0, IntSucc(row0), col0, IntSucc(col0)>>,
   ok    |-> IntConvDefined(FFloor(loc.x)) /\ IntConvDefined(FFloor(loc.y))
               /\ \A ch \in 0..(image.nc - 1) : IntConvDefined(res[ch])]

SampleResult(image, loc, ub, row0, col0, pr, pc, res) ==
  [color |-> [i \in 1..Max(image.nc, 4) |->
                IF i <= image.nc THEN Min(255, Max(0, ToInt(res[i - 1], ub))) ELSE 0],
   rows  |-> pr,
   cols  |-> pc,
   raw   |-> <<row0, IntSucc(row0), col0, IntSucc(col0)>>,
   ok    |-> IntConvDefined(FFloor(loc.x)) /\ IntConvDefined(FFloor(loc.y))
               /\ \A ch \in 0..(image.nc - 1) : IntConvDefined(res[ch])]

SampleAt(image, loc, ub, row0, col0) ==
  SampleResult(image, loc, ub, row0, col0, ClampPair(row0, image.h), ClampPair(col0, image.w),
               BilinearFloors(image, loc, row0, col0,
                              ClampPair(row0, image.h), ClampPair(col0, image.w)))

sampleBilinear(image, loc, ub) ==
  SampleAt(image, loc, ub, ToInt(FFloor(loc.y), ub), ToInt(FFloor(loc.x), ub))

(***************************************************************************)
(* distortImage: the body of the loop over the features for one            *)
(* destination pixel curr, and the weighted average.  cx holds the         *)
(* arguments of the call: image, seg_start, seg_end, t, a, b, p.           *)
(***************************************************************************)
\* interpolated, dis and wt of a feature, from start_ln, end_ln, u, v and start_ln.length()
FeatureAt(cx, curr, start_ln, end_ln, u, v, len, absInt, ub) ==
  [dis |-> VSub(VAdd(VAdd(start_ln.start, VScale(direction(start_ln), u)),
                     VScale(VDivS(perp(start_ln), len), v)),
                curr),
   wt  |-> FPow(FDiv(FPow(len, cx.p),
                     FAdd(cx.a, segmentDistance(start_ln, curr, u, v, absInt, ub))),
                cx.b),
   u |-> u, v |-> v, end_ln |-> end_ln,
   ok  |-> ~absInt \/ FLt(u, Zero) \/ FGt(u, One) \/ IntConvDefined(v)]

\* u = end_ln.lineParameter(curr); v = end_ln.signedLineDistance(curr)
FeatureAlong(cx, curr, start_ln, end_ln, absInt, ub) ==
  FeatureAt(cx, curr, start_ln, end_ln, lineParameter(end_ln, curr),
            signedLineDistance(end_ln, curr), length(start_ln), absInt, ub)

\* start_ln = seg_start[i]; end_ln = start_ln.lerp(seg_end[i], t)
FeatureTerm(cx, curr, i, absInt, ub) ==
  FeatureAlong(cx, curr, cx.seg_start[i], lerp(cx.seg_start[i], cx.seg_end[i], cx.t),
               absInt, ub)

\* dissum += dis * wt; wtsum += wt
AccumulateTerm(acc, ft) ==
  [dissum |-> VAdd(acc.dissum, VScale(ft.dis, ft.wt)),
   wtsum  |-> FAdd(acc.wtsum, ft.wt),
   terms  |-> Append(acc.terms, ft),
   ok     |-> acc.ok /\ ft.ok]

RECURSIVE Accumulate(_, _, _, _, _, _)
Accumulate(cx, curr, i, acc, absInt, ub) ==
  IF i > Len(cx.seg_start) THEN acc
  ELSE Accumulate(cx, curr, i + 1, AccumulateTerm(acc, FeatureTerm(cx, curr, i, absInt, ub)),
                  absInt, ub)

DistortSampled(acc, interpolated, smp) ==
  [src |-> interpolated, sample |-> smp.color, terms |-> acc.terms,
   wtsum |-> acc.wtsum, ok |-> acc.ok /\ smp.ok]

\* sampleBilinear(image, interpolated, sample)
DistortSource(cx, acc, interpolated, ub) ==
  DistortSampled(acc, interpolated, sampleBilinear(cx.image, interpolated, ub))

\* interpolated = curr + (dissum / wtsum)
DistortSum(cx, curr, acc, ub) ==
  DistortSource(cx, acc, VAdd(curr, VDivS(acc.dissum, acc.wtsum)), ub)

\* one iteration of the pixel loop: the source location and the sampled colour
DistortPixelValue(cx, r, c, absInt, ub) ==
  DistortSum(cx, Vec2(FromInt(c), FromInt(r)),
             Accumulate(cx, Vec2(FromInt(c), FromInt(r)), 1,
                        [dissum |-> Vec2(Zero, Zero), wtsum |-> Zero, terms |-> << >>,
                         ok |-> TRUE],
                        absInt, ub),
             ub)

\* the copy of the first channel only
WritePixelFirstChannel(img, r, c, sample) ==
  [img EXCEPT !.buf = [i \in DOMAIN img.buf |->
      IF i = pixel(img, r, c) + 1 THEN sample[1] ELSE img.buf[i]]]

\* pix[channel] = sample[channel] for the n channels of pixel (row, col)
WritePixel(img, r, c, sample) ==
  [img EXCEPT !.buf = [i \in DOMAIN img.buf |->
      IF i > pixel(img, r, c) /\ i <= pixel(img, r, c) + img.nc
      THEN sample[i - pixel(img, r, c)] ELSE img.buf[i]]]

(***************************************************************************)
(* blendImages: one output byte                                            *)
(***************************************************************************)
\* z = pix_1[channel] * t + pix_2[channel] * (1 - t); res_pix[channel] = floor(z); a NaN z
\* leaves 0 in the byte on the builds in use
BlendByte(b1, b2, tt) ==
  ToInt(FFloor(FAdd(FMul(FromInt(b1), tt), FMul(FromInt(b2), FSub(One, tt)))), 0)

\* blendImages(img1, img2, t), the assertion aside
blendImages(im1, im2, tt) ==
  [w |-> im1.w, h |-> im1.h, nc |-> im1.nc,
   buf |-> [i \in 1..(im1.w * im1.h * im1.nc) |-> BlendByte(im1.buf[i], im2.buf[i], tt)]]

(***************************************************************************)
(* distortImage as a whole, the assertion aside                            *)
(***************************************************************************)
DistortCtx(image, seg_start, seg_end, tt, aa, bb, pp) ==
  [image |-> image, seg_start |-> seg_start, seg_end |-> seg_end,
   t |-> tt, a |-> aa, b |-> bb, p |-> pp]

distortImage(image, seg_start, seg_end, tt, aa, bb, pp, absInt, ub) ==
  [w |-> image.w, h |-> image.h, nc |-> image.nc,
   buf |-> [i \in 1..(image.w * image.h * image.nc) |->
              DistortPixelValue(DistortCtx(image, seg_start, seg_end, tt, aa, bb, pp),
                                ((i - 1) \div image.nc) \div image.w,
                                ((i - 1) \div image.nc) % image.w, absInt, ub)
                .sample[((i - 1) % image.nc) + 1]]]

(***************************************************************************)
(* State                                                                   *)
(***************************************************************************)
VARIABLES
  fn,           \* the function under execution: "main", "morph", "distort", "blend" or "sample",
                \* "image" for the operations of one Image object, "load" for loadSegments,
                \* "editor" for the correspondence editor
  argv,         \* the command line, argv[0] first; empty when main is not the entry point
  file,         \* the segments file: whether it can be opened, and its lines, each line the
                \* numbers that operator >> extracts from it before it fails
  editor,       \* the correspondence editor: segments, current_start, current_end (<< >> for
                \* null), the mouse events delivered so far and the file saved last
  last,         \* the last call of an Image operation, of morphDriver or of main that returned:
                \* its name, its arguments and the value returned
  img1, img2,   \* the input images
  seg1, seg2,   \* the feature arrays
  t, a, b, p,   \* time and shape parameters
  absInt,       \* the build resolves abs(v) of segmentDistance to abs(int)
  pc,           \* position: "call", "driver", "distort1", "distort2", "blend", "done", "aborted",
                \* "usage", "failed", "returned", "exit"
  row, col,     \* the loop counters of the running pixel loop
  distorted1,   \* result of the first distortImage (or of the only one)
  distorted2,   \* result of the second distortImage
  blended,      \* result of blendImages
  px,           \* what the last iteration of distortImage computed
  loc,          \* argument of sampleBilinear
  sampled,      \* result of sampleBilinear
  convUB        \* what an undefined double-to-int conversion has yielded in this run, if one occurred

vars == <<fn, argv, file, editor, last, img1, img2, seg1, seg2, t, a, b, p, absInt, pc, row, col,
          distorted1, distorted2, blended, px, loc, sampled, convUB>>

inputs == <<fn, argv, file, editor, last, img1, img2, seg1, seg2, t, a, b, p, absInt, loc>>

(***************************************************************************)
(* Inputs of the model                                                     *)
(***************************************************************************)
MaxW == 2

MaxH == 2

\* image sizes <<w, h>>: the largest, one column, one row
Sizes == {<<MaxW, MaxH>>, <<1, MaxH>>, <<MaxW, 1>>}

\* atof("0.3")
Dec03 == [k |-> "fin", s |-> 1, m |-> <<13107, 26214, 19660, 153>>, e |-> -54]

Half == [k |-> "fin", s |-> 1, m |-> <<1>>, e |-> -1]

Patterns == {1, 2}

PatternByte(k, i) == IF k = 1 THEN (105 + 37 * i) % 256 ELSE (3 + 93 * i) % 256

MkImage(w, h, nc, k) ==
  [w |-> w, h |-> h, nc |-> nc, buf |-> [i \in 1..(w * h * nc) |-> PatternByte(k, i - 1)]]

\* Image()
NoImage == [w |-> 0, h |-> 0, nc |-> 0, buf |-> << >>]

Pt(x, y) == Vec2(FromInt(x), FromInt(y))

Seg(x1, y1, x2, y2) == LineSegment(Pt(x1, y1), Pt(x2, y2))

FeatureCases ==
  { [s1 |-> << >>,                              s2 |-> << >>],
    [s1 |-> <<Seg(0, 0, 3, 0)>>,                s2 |-> <<Seg(0, 0, 3, 0)>>],
    [s1 |-> <<Seg(0, 1, 1, 2)>>,                s2 |-> <<Seg(0, 1, 1, 2)>>],
    [s1 |-> <<Seg(0, 0, 3, 0)>>,                s2 |-> <<Seg(1, 0, 4, 0)>>],
    [s1 |-> <<Seg(0, 1, 1, 2)>>,                s2 |-> <<Seg(0, 2, 1, 3)>>],
    [s1 |-> <<Seg(0, 0, 3, 0), Seg(1, 1, 1, 1)>>, s2 |-> <<Seg(0, 0, 3, 0), Seg(1, 1, 1, 1)>>],
    [s1 |-> <<Seg(0, 0, 3, 0), Seg(0, 1, 1, 2)>>, s2 |-> <<Seg(1, 0, 4, 0), Seg(0, 1, 1, 2)>>],
    [s1 |-> <<Seg(0, 0, 3, 0)>>,                s2 |-> <<Seg(3, 0, 0, 0)>>],
    [s1 |-> <<Seg(0, 0, 1, 0)>>,                s2 |-> <<Seg(-1, 0, 0, 0)>>] }

NoPx == [row |-> -1, col |-> -1, src |-> Vec2(Zero, Zero), terms |-> << >>, wtsum |-> Zero]

\* the values an undefined conversion may yield now: the build yields the same one every time
UBChoices(defined) == IF convUB # {} THEN convUB ELSE IF defined THEN {0} ELSE UBInts

\* the value tried first
UBFirst == IF convUB # {} THEN CHOOSE u \in convUB : TRUE ELSE 0

\* no editor is running
NoEditor == [segments |-> << >>, current_start |-> << >>, current_end |-> << >>,
             events |-> << >>, saved |-> << >>]

Idle ==
  /\ pc = "call" /\ row = 0 /\ col = 0
  /\ distorted1 = NoImage /\ distorted2 = NoImage /\ blended = NoImage
  /\ px = NoPx /\ sampled = << >> /\ convUB = {}
  /\ last = [op |-> "none", args |-> << >>, ret |-> TRUE]
  /\ file = [open |-> FALSE, lines |-> << >>]
  /\ editor = NoEditor

(***************************************************************************)
(* distortImage                                                            *)
(***************************************************************************)
\* both calls warping from seg1 to seg2
DistortArgsUnswapped ==
  IF pc = "distort1"
  THEN [image |-> img1, seg_start |-> seg1, seg_end |-> seg2, t |-> t, a |-> a, b |-> b, p |-> p]
  ELSE [image |-> img2, seg_start |-> seg1, seg_end |-> seg2, t |-> FSub(One, t),
        a |-> a, b |-> b, p |-> p]

\* the arguments of the distortImage call in progress
DistortArgs ==
  IF pc = "distort1"
  THEN [image |-> img1, seg_start |-> seg1, seg_end |-> seg2, t |-> t, a |-> a, b |-> b, p |-> p]
  ELSE [image |-> img2, seg_start |-> seg2, seg_end |-> seg1, t |-> FSub(One, t),
        a |-> a, b |-> b, p |-> p]

\* distortImage is entered: the assertion, then Image result(w, h, n)
DistortCall ==
  /\ fn = "distort" /\ pc = "call"
  /\ IF Len(seg1) = Len(seg2)
     THEN pc' = "distort1" /\ distorted1' = Image(img1.w, img1.h, img1.nc)
     ELSE pc' = "aborted" /\ UNCHANGED distorted1
  /\ UNCHANGED <<inputs, row, col, distorted2, blended, px, sampled, convUB>>

\* the iteration without `wtsum = 0': the weight sum of the previous pixel is carried over
DistortPixelValueCarried(cx, r, c, ab, ub) ==
  DistortSum(cx, Vec2(FromInt(c), FromInt(r)),
             Accumulate(cx, Vec2(FromInt(c), FromInt(r)), 1,
                        [dissum |-> Vec2(Zero, Zero), wtsum |-> px.wtsum, terms |-> << >>,
                         ok |-> TRUE],
                        ab, ub),
             ub)

\* the pixel loop with that iteration
DistortPixelCarried ==
  /\ pc \in {"distort1", "distort2"}
  /\ row < DistortArgs.image.h /\ col < DistortArgs.image.w
  /\ \E v0 \in {DistortPixelValueCarried(DistortArgs, row, col, absInt, UBFirst)} :
       \E ub \in UBChoices(v0.ok) :
         \E v \in {IF ub = UBFirst THEN v0
                   ELSE DistortPixelValueCarried(DistortArgs, row, col, absInt, ub)} :
           /\ px' = [row |-> row, col |-> col, src |-> v.src, terms |-> v.terms,
                     wtsum |-> v.wtsum]
           /\ convUB' = IF v0.ok THEN convUB ELSE {ub}
           /\ IF pc = "distort1"
              THEN distorted1' = WritePixel(distorted1, row, col, v.sample) /\ UNCHANGED distorted2
              ELSE distorted2' = WritePixel(distorted2, row, col, v.sample) /\ UNCHANGED distorted1
  /\ IF col + 1 < DistortArgs.image.w
     THEN col' = col + 1 /\ row' = row
     ELSE col' = 0 /\ row' = row + 1
  /\ UNCHANGED <<inputs, pc, blended, sampled>>

\* one iteration of the loop over the destination pixels
DistortPixel ==
  /\ pc \in {"distort1", "distort2"}
  /\ row < DistortArgs.image.h /\ col < DistortArgs.image.w
  /\ \E v0 \in {DistortPixelValue(DistortArgs, row, col, absInt, UBFirst)} :
       \E ub \in UBChoices(v0.ok) :
         \E v \in {IF ub = UBFirst THEN v0
                   ELSE DistortPixelValue(DistortArgs, row, col, absInt, ub)} :
           /\ px' = [row |-> row, col |-> col, src |-> v.src, terms |-> v.terms,
                     wtsum |-> v.wtsum]
           /\ convUB' = IF v0.ok THEN convUB ELSE {ub}
           /\ IF pc = "distort1"
              THEN distorted1' = WritePixel(distorted1, row, col, v.sample) /\ UNCHANGED distorted2
              ELSE distorted2' = WritePixel(distorted2, row, col, v.sample) /\ UNCHANGED distorted1
  /\ IF col + 1 < DistortArgs.image.w
     THEN col' = col + 1 /\ row' = row
     ELSE col' = 0 /\ row' = row + 1
  /\ UNCHANGED <<inputs, pc, blended, sampled>>

\* the loops are over: return result
DistortReturn ==
  /\ pc \in {"distort1", "distort2"}
  /\ row >= DistortArgs.image.h
  /\ row' = 0 /\ col' = 0
  /\ IF fn = "distort"
     THEN pc' = "done" /\ UNCHANGED <<distorted2, blended>>
     ELSE IF pc = "distort1"
     THEN \* morphImages calls distortImage(img2, seg2, seg1, 1-t, a, b, p)
          IF Len(seg2) = Len(seg1)
          THEN pc' = "distort2" /\ distorted2' = Image(img2.w, img2.h, img2.nc) /\ UNCHANGED blended
          ELSE pc' = "aborted" /\ UNCHANGED <<distorted2, blended>>
     ELSE \* morphImages calls blendImages(distorted1, distorted2, 1-t)
          IF hasSameDimsAs(distorted1, distorted2)
          THEN pc' = "blend" /\ blended' = Image(distorted1.w, distorted1.h, distorted1.nc)
               /\ UNCHANGED distorted2
          ELSE pc' = "aborted" /\ UNCHANGED <<distorted2, blended>>
  /\ UNCHANGED <<inputs, distorted1, px, sampled, convUB>>

(***************************************************************************)
(* blendImages                                                             *)
(***************************************************************************)
\* the arguments of the blendImages call in progress
BlendArgs ==
  IF fn = "blend"
  THEN [img1 |-> img1, img2 |-> img2, t |-> t]
  ELSE [img1 |-> distorted1, img2 |-> distorted2, t |-> FSub(One, t)]

BlendCall ==
  /\ fn = "blend" /\ pc = "call"
  /\ IF hasSameDimsAs(img1, img2)
     THEN pc' = "blend" /\ blended' = Image(img1.w, img1.h, img1.nc)
     ELSE pc' = "aborted" /\ UNCHANGED blended
  /\ UNCHANGED <<inputs, row, col, distorted1, distorted2, px, sampled, convUB>>

BlendPixel ==
  /\ pc = "blend"
  /\ row < BlendArgs.img1.h /\ col < BlendArgs.img1.w
  /\ blended' = WritePixel(blended, row, col,
                  [ch \in 1..BlendArgs.img1.nc |->
                     BlendByte(PixAt(BlendArgs.img1, row, col, ch - 1),
                               PixAt(BlendArgs.img2, row, col, ch - 1), BlendArgs.t)])
  /\ IF col + 1 < BlendArgs.img1.w
     THEN col' = col + 1 /\ row' = row
     ELSE col' = 0 /\ row' = row + 1
  /\ UNCHANGED <<inputs, pc, distorted1, distorted2, px, sampled, convUB>>

BlendReturn ==
  /\ pc = "blend"
  /\ row >= BlendArgs.img1.h
  /\ pc' = "done"
  /\ UNCHANGED <<inputs, row, col, distorted1, distorted2, blended, px, sampled, convUB>>

(***************************************************************************)
(* morphImages                                                             *)
(***************************************************************************)
\* morphImages is entered: the assertion, then distortImage(img1, seg1, seg2, t, a, b, p)
MorphCall ==
  /\ fn = "morph" /\ pc = "call"
  /\ IF hasSameDimsAs(img1, img2) /\ Len(seg1) = Len(seg2)
     THEN pc' = "distort1" /\ distorted1' = Image(img1.w, img1.h, img1.nc)
     ELSE pc' = "aborted" /\ UNCHANGED distorted1
  /\ UNCHANGED <<inputs, row, col, distorted2, blended, px, sampled, convUB>>

(***************************************************************************)
(* main and morphDriver                                                    *)
(***************************************************************************)
\* std::atof of the arguments the model passes: the longest prefix that is a number, 0.0 if
\* there is none
atof(s) ==
  CASE s = "0" -> Zero
    [] s = "0.3" -> Dec03
    [] s = "0.5" -> Half
    [] s = "1" -> One
    [] s = "-1" -> FromInt(-1)
    [] s = "2" -> FromInt(2)
    [] s = "1e999" -> Inf(1)
    [] s = "-inf" -> Inf(-1)
    [] s = "nan" -> NaN
    [] s = "0.5x" -> Half
    [] OTHER -> Zero

\* the sanity check of main: if (t < 0.0 || t > 1.0) { if (t > 1.0) t = 1.0; else t = 0.0; }
ClampTime(x) ==
  IF FLt(x, Zero) \/ FGt(x, One) THEN (IF FGt(x, One) THEN One ELSE Zero) ELSE x

\* main up to its call of morphDriver: argv[k] of the program is argv[k + 1] here
MainCall ==
  /\ fn = "main" /\ pc = "call"
  /\ IF Len(argv) # 6 /\ Len(argv) # 9
     THEN /\ pc' = "usage" /\ UNCHANGED <<t, a, b, p>>
          /\ last' = [op |-> "main", args |-> << >>, ret |-> -1]
     ELSE /\ t' = ClampTime(atof(argv[5]))
          /\ a' = IF Len(argv) = 9 THEN atof(argv[7]) ELSE Half
          /\ b' = IF Len(argv) = 9 THEN atof(argv[8]) ELSE One
          \* 0.2 is the double 3602879701896397 / 2^54
          /\ p' = IF Len(argv) = 9 THEN atof(argv[9])
                  ELSE [k |-> "fin", s |-> 1, m |-> <<19661, 6553, 13107, 102>>, e |-> -54]
          /\ pc' = "driver" /\ last' = last
  /\ UNCHANGED <<fn, argv, file, editor, img1, img2, seg1, seg2, absInt, loc, row, col,
                 distorted1, distorted2, blended, px, sampled, convUB>>

\* Image::save(path): the extension decides the writer, whose result is returned; any other
\* path is refused
save(path, written) ==
  IF path \in {"out.png", "OUT.PNG", "out.bmp"} THEN written ELSE FALSE

\* the steps of morphDriver taken so far, each with its success: all but the last succeeded
StepsTaken(names, ok) == [i \in 1..Len(names) |-> <<names[i], i < Len(names) \/ ok>>]

\* morphDriver skipping the comparison of the dimensions
MorphDriverCallUnchecked ==
  /\ fn = "main" /\ pc = "driver"
  /\ \E segs_ok \in BOOLEAN :
       /\ last' = [op |-> "morphDriver", ret |-> FALSE,
                   args |-> IF img1.buf = << >> THEN StepsTaken(<<"load1">>, FALSE)
                            ELSE IF img2.buf = << >> THEN StepsTaken(<<"load1", "load2">>, FALSE)
                            ELSE IF ~segs_ok
                            THEN StepsTaken(<<"load1", "load2", "dims", "segments">>, FALSE)
                            ELSE StepsTaken(<<"load1", "load2", "dims", "segments", "morph">>,
                                            TRUE)]
       /\ IF img1.buf = << >> \/ img2.buf = << >> \/ ~segs_ok
          THEN pc' = "failed" /\ fn' = fn
          ELSE pc' = "call" /\ fn' = "morph"
  /\ UNCHANGED <<argv, file, editor, img1, img2, seg1, seg2, t, a, b, p, absInt, loc, row, col,
                 distorted1, distorted2, blended, px, sampled, convUB>>

\* morphDriver up to its call of morphImages: img1, img2 are what the two files decode to
\* (Image() if a load fails), seg1, seg2 what the segments file holds if it can be read;
\* last.args lists the steps taken
MorphDriverCall ==
  /\ fn = "main" /\ pc = "driver"
  /\ \E segs_ok \in BOOLEAN :
       /\ last' = [op |-> "morphDriver", ret |-> FALSE,
                   args |-> IF img1.buf = << >> THEN StepsTaken(<<"load1">>, FALSE)
                            ELSE IF img2.buf = << >> THEN StepsTaken(<<"load1", "load2">>, FALSE)
                            ELSE IF ~hasSameDimsAs(img1, img2)
                            THEN StepsTaken(<<"load1", "load2", "dims">>, FALSE)
                            ELSE IF ~segs_ok
                            THEN StepsTaken(<<"load1", "load2", "dims", "segments">>, FALSE)
                            ELSE StepsTaken(<<"load1", "load2", "dims", "segments", "morph">>,
                                            TRUE)]
       /\ IF img1.buf = << >> \/ img2.buf = << >> \/ ~hasSameDimsAs(img1, img2) \/ ~segs_ok
          THEN pc' = "failed" /\ fn' = fn
          ELSE pc' = "call" /\ fn' = "morph"
  /\ UNCHANGED <<argv, file, editor, img1, img2, seg1, seg2, t, a, b, p, absInt, loc, row, col,
                 distorted1, distorted2, blended, px, sampled, convUB>>

\* morphImages has returned to morphDriver: morphed.save(out_path), then return
MorphDriverReturn ==
  /\ fn = "morph" /\ pc = "done" /\ argv # << >>
  /\ \E written \in BOOLEAN :
       last' = [op |-> "morphDriver",
                args |-> Append(last.args, <<"save", save(argv[6], written)>>),
                ret |-> save(argv[6], written)]
  /\ fn' = "main" /\ pc' = "returned"
  /\ UNCHANGED <<argv, file, editor, img1, img2, seg1, seg2, t, a, b, p, absInt, loc, row, col,
                 distorted1, distorted2, blended, px, sampled, convUB>>

\* morphDriver has returned to main: return 0
MainReturn ==
  /\ fn = "main" /\ pc \in {"failed", "returned"}
  /\ pc' = "exit"
  /\ last' = [op |-> "main", args |-> <<last>>, ret |-> 0]
  /\ UNCHANGED <<fn, argv, file, editor, img1, img2, seg1, seg2, t, a, b, p, absInt, loc, row, col,
                 distorted1, distorted2, blended, px, sampled, convUB>>

(***************************************************************************)
(* loadSegments                                                            *)
(***************************************************************************)
\* the body of the while loop from the second line on: k is the line getline returns next
RECURSIVE ReadPairs(_, _, _, _, _)
ReadPairs(lines, k, num_segs, s1, s2) ==
  IF ~(Len(s1) < num_segs) \/ k > Len(lines)
  THEN [ret |-> Len(s1) = num_segs, seg1 |-> s1, seg2 |-> s2]
  ELSE IF Len(lines[k]) < 8
  THEN [ret |-> FALSE, seg1 |-> s1, seg2 |-> s2]
  ELSE ReadPairs(lines, k + 1, num_segs,
                 Append(s1, Seg(lines[k][1], lines[k][2], lines[k][3], lines[k][4])),
                 Append(s2, Seg(lines[k][5], lines[k][6], lines[k][7], lines[k][8])))

\* loadSegments(path, seg1, seg2): what it returns and what it leaves in seg1, seg2
loadSegments(f, s1, s2) ==
  IF ~f.open THEN [ret |-> FALSE, seg1 |-> s1, seg2 |-> s2]
  ELSE IF Len(f.lines) = 0 THEN [ret |-> TRUE, seg1 |-> << >>, seg2 |-> << >>]
  ELSE IF Len(f.lines[1]) = 0 THEN [ret |-> FALSE, seg1 |-> << >>, seg2 |-> << >>]
  ELSE ReadPairs(f.lines, 2, f.lines[1][1], << >>, << >>)

LoadSegmentsCall ==
  /\ fn = "load" /\ pc = "call"
  /\ seg1' = loadSegments(file, seg1, seg2).seg1
  /\ seg2' = loadSegments(file, seg1, seg2).seg2
  /\ last' = [op |-> "loadSegments", args |-> <<seg1, seg2>>,
              ret |-> loadSegments(file, seg1, seg2).ret]
  /\ pc' = "done"
  /\ UNCHANGED <<fn, argv, file, editor, img1, img2, t, a, b, p, absInt, loc, row, col,
                 distorted1, distorted2, blended, px, sampled, convUB>>

(***************************************************************************)
(* The correspondence editor (Editor.java)                                 *)
(***************************************************************************)
HSEP == 25

\* source_image.getWidth()
SourceWidth == 2

\* the mouse events of a run
MaxEvents == 6

\* mousePressed without the test of the position
mousePressedAnywhere(e) ==
  [editor EXCEPT !.current_start = e, !.current_end = << >>,
                 !.events = Append(@, <<"pressed", e>>)]

\* mousePressed(e), e.getPoint() = <<x, y>>
mousePressed(e) ==
  [editor EXCEPT
     !.current_start =
        IF \/ (Len(editor.segments) % 2 = 0 /\ e[1] >= SourceWidth)
           \/ (Len(editor.segments) % 2 = 1 /\ e[1] < SourceWidth + HSEP)
        THEN << >> ELSE e,
     !.current_end = << >>,
     !.events = Append(@, <<"pressed", e>>)]

\* mouseDragged(e)
mouseDragged(e) ==
  [editor EXCEPT !.current_end = e, !.events = Append(@, <<"dragged", e>>)]

\* the lines saveCorrespondences prints for the segments: the count, then one line for every
\* second segment with its partner, or with the zero segment where the partner is missing
saveCorrespondences(segments) ==
  <<<<Len(segments) \div 2>>>> \o
  [k \in 1..((Len(segments) + 1) \div 2) |->
     segments[2 * k - 1] \o (IF 2 * k > Len(segments) THEN <<0, 0, 0, 0>> ELSE segments[2 * k])]

\* the segment mouseReleased adds
NewSegment(xoffset) ==
  <<editor.current_start[1] - xoffset, editor.current_start[2],
    editor.current_end[1] - xoffset, editor.current_end[2]>>

\* mouseReleased that saves after every segment added
mouseReleasedSavingAlways(e, opened) ==
  IF editor.current_start # << >> /\ editor.current_end # << >>
  THEN [editor EXCEPT
          !.segments = Append(@, NewSegment(IF Len(editor.segments) % 2 = 1
                                            THEN SourceWidth + HSEP ELSE 0)),
          !.saved = IF opened
                    THEN saveCorrespondences(
                           Append(editor.segments,
                                  NewSegment(IF Len(editor.segments) % 2 = 1
                                             THEN SourceWidth + HSEP ELSE 0)))
                    ELSE @,
          !.current_start = << >>,
          !.events = Append(@, <<"released", e>>)]
  ELSE [editor EXCEPT !.current_start = << >>, !.events = Append(@, <<"released", e>>)]

\* mouseReleased(e); opened: the PrintWriter could be created
mouseReleased(e, opened) ==
  IF editor.current_start # << >> /\ editor.current_end # << >>
  THEN [editor EXCEPT
          !.segments = Append(@, NewSegment(IF Len(editor.segments) % 2 = 1
                                            THEN SourceWidth + HSEP ELSE 0)),
          !.saved = IF (Len(editor.segments) + 1) % 2 = 0 /\ opened
                    THEN saveCorrespondences(
                           Append(editor.segments,
                                  NewSegment(IF Len(editor.segments) % 2 = 1
                                             THEN SourceWidth + HSEP ELSE 0)))
                    ELSE @,
          !.current_start = << >>,
          !.events = Append(@, <<"released", e>>)]
  ELSE [editor EXCEPT !.current_start = << >>, !.events = Append(@, <<"released", e>>)]

EditorUnchanged ==
  UNCHANGED <<fn, argv, file, last, img1, img2, seg1, seg2, t, a, b, p, absInt, loc,
              pc, row, col, distorted1, distorted2, blended, px, sampled, convUB>>

\* the positions of the mouse: the last column of the source image, the first column of the
\* gap, the last column of the gap and the first column of the target image
MouseXs == {SourceWidth - 1, SourceWidth, SourceWidth + HSEP - 1, SourceWidth + HSEP}

\* a mouse button goes down
MousePressed ==
  /\ fn = "editor" /\ Len(editor.events) < MaxEvents
  /\ \E x \in MouseXs : editor' = mousePressed(<<x, 0>>)
  /\ EditorUnchanged

\* the mouse moves with the button down
MouseDragged ==
  /\ fn = "editor" /\ Len(editor.events) < MaxEvents
  /\ \E x \in {SourceWidth - 1, SourceWidth + HSEP} : editor' = mouseDragged(<<x, 1>>)
  /\ EditorUnchanged

\* the mouse button goes up
MouseReleased ==
  /\ fn = "editor" /\ Len(editor.events) < MaxEvents
  /\ \E opened \in BOOLEAN : editor' = mouseReleased(<<SourceWidth, 1>>, opened)
  /\ EditorUnchanged

(***************************************************************************)
(* The operations of Image on one object, img1                             *)
(***************************************************************************)
\* Image(w_, h_, nc_) on the object as Image() left it, or a later resize(w_, h_, nc_)
ImageResize ==
  /\ fn = "image" /\ pc = "call"
  /\ \E w_ \in -1..MaxW, h_ \in -1..MaxH, nc_ \in {-1, 0, 1, 3} :
       /\ img1' = resize(img1, w_, h_, nc_)
       /\ last' = [op |-> "resize", args |-> <<w_, h_, nc_>>,
                   ret |-> resizeReturns(img1, w_, h_, nc_)]
  /\ UNCHANGED <<fn, argv, file, editor, img2, seg1, seg2, t, a, b, p, absInt, loc, pc, row, col,
                 distorted1, distorted2, blended, px, sampled, convUB>>

\* *this = src with img2 as src: resize(src.w, src.h, src.nc), then memcpy of w * h * nc bytes
\* into buf; the copy into a buffer that does not hold them ends the program
ImageAssign ==
  /\ fn = "image" /\ pc = "call"
  /\ IF Len(resize(img1, img2.w, img2.h, img2.nc).buf) < img2.w * img2.h * img2.nc
     THEN pc' = "aborted" /\ img1' = img1
     ELSE pc' = pc /\ img1' = [resize(img1, img2.w, img2.h, img2.nc) EXCEPT !.buf = img2.buf]
  /\ last' = [op |-> "assign", args |-> << >>, ret |-> TRUE]
  /\ UNCHANGED <<fn, argv, file, editor, img2, seg1, seg2, t, a, b, p, absInt, loc, row, col,
                 distorted1, distorted2, blended, px, sampled, convUB>>

\* load(path, req_nc): the buffer is freed and replaced by what stbi_load returns, NULL for a
\* file that cannot be read (w, h, nc stay), else the decoded image of the file
ImageLoad ==
  /\ fn = "image" /\ pc = "call"
  /\ \E req_nc \in {0, 4} :
       \/ /\ img1' = [img1 EXCEPT !.buf = << >>]
          /\ last' = [op |-> "load", args |-> <<req_nc>>, ret |-> FALSE]
       \/ /\ \E decoded \in {[w |-> 1, h |-> 1, nc |-> 3], [w |-> MaxW, h |-> MaxH, nc |-> 1]} :
               img1' = MkImage(decoded.w, decoded.h,
                               IF req_nc # 0 THEN req_nc ELSE decoded.nc, 1)
          /\ last' = [op |-> "load", args |-> <<req_nc>>, ret |-> TRUE]
  /\ UNCHANGED <<fn, argv, file, editor, img2, seg1, seg2, t, a, b, p, absInt, loc, pc, row, col,
                 distorted1, distorted2, blended, px, sampled, convUB>>

(***************************************************************************)
(* sampleBilinear, called on its own                                       *)
(***************************************************************************)
SampleCall ==
  /\ fn = "sample" /\ pc = "call"
  /\ \E s0 \in {sampleBilinear(img1, loc, UBFirst)} :
       \E ub \in UBChoices(s0.ok) :
         /\ sampled' = IF ub = UBFirst THEN s0 ELSE sampleBilinear(img1, loc, ub)
         /\ convUB' = IF s0.ok THEN convUB ELSE {ub}
  /\ pc' = "done"
  /\ UNCHANGED <<inputs, row, col, distorted1, distorted2, blended, px>>

(***************************************************************************)
(* Specifications, one per entry point                                     *)
(***************************************************************************)
ShapeInit ==
  /\ a = Half /\ b = One /\ p \in {Zero, One}

InitDistort ==
  /\ fn = "distort"
  /\ \E sz \in Sizes : img1 = MkImage(sz[1], sz[2], 1, 1)
  /\ img2 = NoImage
  /\ \E f \in FeatureCases : seg1 = f.s1 /\ seg2 = f.s2
  /\ t \in {Zero, Half, One}
  /\ ShapeInit
  /\ absInt \in BOOLEAN
  /\ loc = Vec2(Zero, Zero)
  /\ argv = << >>
  /\ Idle

NextDistort == DistortCall \/ DistortPixel \/ DistortReturn

SpecDistort == InitDistort /\ [][NextDistort]_vars

Quarter == [k |-> "fin", s |-> 1, m |-> <<1>>, e |-> -2]

\* the 1x1 RGBA pixel (v, v, v, 255)
GrayPixel(v) == [w |-> 1, h |-> 1, nc |-> 4, buf |-> <<v, v, v, 255>>]

InitBlend ==
  /\ fn = "blend"
  /\ \/ \E sz \in Sizes, k1 \in Patterns, k2 \in Patterns :
          img1 = MkImage(sz[1], sz[2], 1, k1) /\ img2 = MkImage(sz[1], sz[2], 1, k2)
     \/ img1 = GrayPixel(100) /\ img2 = GrayPixel(200)
  /\ seg1 = << >> /\ seg2 = << >>
  /\ t \in {Zero, Dec03, Quarter, Half, One}
  /\ a = Half /\ b = One /\ p = Zero
  /\ absInt = TRUE
  /\ loc = Vec2(Zero, Zero)
  /\ argv = << >>
  /\ Idle

NextBlend == BlendCall \/ BlendPixel \/ BlendReturn

SpecBlend == InitBlend /\ [][NextBlend]_vars

\* sample coordinates: the integers -1..n, the points half way between them, 0.3, the far
\* away -1000 and 1000, 2^40 and NaN
SampleCoords(n) ==
  {FromInt(i) : i \in -1..n} \cup {Dyadic(2 * i + 1, -1) : i \in -1..(n - 1)}
    \cup {Dec03, FromInt(-1000), FromInt(1000), Dyadic(1, 40), NaN}

\* the 2x2 single-channel image [[10, 20], [30, 40]]
Image2x2 == [w |-> 2, h |-> 2, nc |-> 1, buf |-> <<10, 20, 30, 40>>]

InitSample ==
  /\ fn = "sample"
  /\ \/ \E sz \in Sizes, nc \in {0, 1, 3, 4} : img1 = MkImage(sz[1], sz[2], nc, 1)
     \/ img1 = Image2x2
     \/ img1 = MkImage(1, 1, 5, 1)
  /\ img2 = NoImage
  /\ seg1 = << >> /\ seg2 = << >>
  /\ t = Zero /\ a = Half /\ b = One /\ p = Zero
  /\ absInt = TRUE
  /\ \E x \in SampleCoords(MaxW), y \in SampleCoords(MaxH) : loc = Vec2(x, y)
  /\ argv = << >>
  /\ Idle

NextSample == SampleCall

SpecSample == InitSample /\ [][NextSample]_vars

MorphFeatureCases ==
  { [s1 |-> << >>,                s2 |-> << >>],
    [s1 |-> <<Seg(0, 0, 3, 0)>>,  s2 |-> <<Seg(0, 0, 3, 0)>>],
    [s1 |-> <<Seg(0, 0, 3, 0)>>,  s2 |-> <<Seg(1, 0, 4, 0)>>],
    [s1 |-> <<Seg(0, 1, 1, 2)>>,  s2 |-> <<Seg(0, 2, 1, 3)>>] }

InitMorph ==
  /\ fn = "morph"
  /\ \E sz \in Sizes : img1 = MkImage(sz[1], sz[2], 1, 1) /\ img2 = MkImage(sz[1], sz[2], 1, 2)
  /\ \E f \in MorphFeatureCases : seg1 = f.s1 /\ seg2 = f.s2
  /\ t \in {Zero, Half, One}
  /\ a = Half /\ b = One /\ p = Zero
  /\ absInt \in BOOLEAN
  /\ loc = Vec2(Zero, Zero)
  /\ argv = << >>
  /\ Idle

NextMorph == MorphCall \/ DistortPixel \/ DistortReturn \/ BlendPixel \/ BlendReturn

SpecMorph == InitMorph /\ [][NextMorph]_vars

\* the three entry points called with any pairing of image dimensions and of feature counts
InitCore ==
  /\ fn \in {"distort", "blend", "morph"}
  /\ \E sz1 \in Sizes, sz2 \in Sizes, nc1 \in {1, 3}, nc2 \in {1, 3} :
       img1 = MkImage(sz1[1], sz1[2], nc1, 1) /\ img2 = MkImage(sz2[1], sz2[2], nc2, 2)
  /\ seg1 \in {<< >>, <<Seg(0, 0, 3, 0)>>, <<Seg(0, 0, 3, 0), Seg(0, 1, 1, 2)>>}
  /\ seg2 \in {<< >>, <<Seg(1, 0, 4, 0)>>, <<Seg(1, 0, 4, 0), Seg(0, 1, 1, 2)>>}
  /\ t = Half /\ a = Half /\ b = One /\ p = Zero
  /\ absInt = FALSE
  /\ loc = Vec2(Zero, Zero)
  /\ argv = << >>
  /\ Idle

NextCore ==
  \/ DistortCall \/ BlendCall \/ MorphCall
  \/ DistortPixel \/ DistortReturn \/ BlendPixel \/ BlendReturn

SpecCore == InitCore /\ [][NextCore]_vars

\* the program run from its command line
InitMain ==
  /\ fn = "main"
  /\ \E ts \in {"0", "0.3", "0.5", "1", "-1", "2", "1e999", "-inf", "nan", "0.5x", "abc"} :
       \/ argv = <<"morph", "1.png", "2.png", "segs.txt", ts>>
       \/ \E out \in {"out.png", "out.jpg"} :
            argv = <<"morph", "1.png", "2.png", "segs.txt", ts, out>>
       \/ \E ps \in {"0", "2"} :
            argv = <<"morph", "1.png", "2.png", "segs.txt", ts, "out.png", "0.5", "1", ps>>
  /\ img1 \in {NoImage, MkImage(1, 1, 4, 1), MkImage(MaxW, 1, 4, 1)}
  /\ img2 \in {NoImage, MkImage(1, 1, 4, 2), MkImage(MaxW, 1, 4, 2)}
  /\ seg1 = <<Seg(0, 0, 1, 0)>> /\ seg2 = <<Seg(1, 0, 2, 0)>>
  /\ t = Zero /\ a = Zero /\ b = Zero /\ p = Zero
  /\ absInt = FALSE
  /\ loc = Vec2(Zero, Zero)
  /\ Idle

NextMain ==
  \/ MainCall \/ MorphDriverCall \/ MorphDriverReturn \/ MainReturn
  \/ MorphCall \/ DistortPixel \/ DistortReturn \/ BlendPixel \/ BlendReturn

SpecMain == InitMain /\ [][NextMain]_vars

\* an Image object under any sequence of its operations, from Image()
InitImage ==
  /\ fn = "image"
  /\ argv = << >>
  /\ img1 = NoImage
  /\ img2 \in {NoImage, MkImage(1, 1, 1, 2), MkImage(MaxW, 1, 3, 2), MkImage(MaxW, MaxH, 1, 2)}
  /\ seg1 = << >> /\ seg2 = << >>
  /\ t = Zero /\ a = Zero /\ b = Zero /\ p = Zero
  /\ absInt = FALSE
  /\ loc = Vec2(Zero, Zero)
  /\ Idle

NextImage == ImageResize \/ ImageAssign \/ ImageLoad

SpecImage == InitImage /\ [][NextImage]_vars

\* loadSegments on a file of up to three lines, into vectors that may hold earlier pairs
InitLoad ==
  /\ fn = "load"
  /\ argv = << >>
  /\ \/ file = [open |-> FALSE, lines |-> << >>]
     \/ \E n \in 0..3 :
          \E ls \in [1..n -> {<< >>, <<-1>>, <<0>>, <<1>>, <<2>>, <<0, 0, 1>>,
                              <<0, 0, 3, 0, 1, 0, 4, 0>>, <<0, 1, 1, 2, 0, 2, 1, 3, 7>>}] :
            file = [open |-> TRUE, lines |-> ls]
  /\ \/ seg1 = << >> /\ seg2 = << >>
     \/ seg1 = <<Seg(5, 5, 6, 6)>> /\ seg2 = <<Seg(6, 6, 7, 7)>>
  /\ img1 = NoImage /\ img2 = NoImage
  /\ t = Zero /\ a = Zero /\ b = Zero /\ p = Zero
  /\ absInt = FALSE
  /\ loc = Vec2(Zero, Zero)
  /\ pc = "call" /\ row = 0 /\ col = 0
  /\ distorted1 = NoImage /\ distorted2 = NoImage /\ blended = NoImage
  /\ px = NoPx /\ sampled = << >> /\ convUB = {}
  /\ last = [op |-> "none", args |-> << >>, ret |-> TRUE]
  /\ editor = NoEditor

NextLoad == LoadSegmentsCall

SpecLoad == InitLoad /\ [][NextLoad]_vars

\* the editor after its constructor, with no segments or with the pair of a correspondence
\* file read
InitEditor ==
  /\ fn = "editor"
  /\ argv = << >>
  /\ file = [open |-> FALSE, lines |-> << >>]
  /\ \E segs \in {<< >>, <<<<0, 0, 1, 1>>, <<1, 0, 1, 1>>>>} : editor = [NoEditor EXCEPT !.segments = segs]
  /\ img1 = NoImage /\ img2 = NoImage
  /\ seg1 = << >> /\ seg2 = << >>
  /\ t = Zero /\ a = Zero /\ b = Zero /\ p = Zero
  /\ absInt = FALSE
  /\ loc = Vec2(Zero, Zero)
  /\ pc = "call" /\ row = 0 /\ col = 0
  /\ distorted1 = NoImage /\ distorted2 = NoImage /\ blended = NoImage
  /\ px = NoPx /\ sampled = << >> /\ convUB = {}
  /\ last = [op |-> "none", args |-> << >>, ret |-> TRUE]

NextEditor == MousePressed \/ MouseDragged \/ MouseReleased

SpecEditor == InitEditor /\ [][NextEditor]_vars

(***************************************************************************)
(* Properties                                                              *)
(***************************************************************************)
\* no byte of the buffer is still unwritten
Complete(img) == \A i \in DOMAIN img.buf : img.buf[i] # Uninit

\* the segment has collapsed to a point
IsPoint(seg) == FEq(seg.start.x, seg.end.x) /\ FEq(seg.start.y, seg.end.y)

\* two locations no further apart than 2^-40 in either coordinate
Near(u, v) ==
  /\ FLe(FAbs(FSub(u.x, v.x)), Dyadic(1, -40))
  /\ FLe(FAbs(FSub(u.y, v.y)), Dyadic(1, -40))

\* the destination pixel of the last iteration of distortImage
PxAt == Pt(px.col, px.row)

\* C1: morphImages returns blend(distort(img1, seg1, seg2, t), distort(img2, seg2, seg1, 1-t), 1-t):
\* the second warp takes the segment arrays swapped and the time 1-t, the weight 1-t goes to
\* the warp of img1, and no byte is blended before both warps are complete.
MorphIsBlendOfWarps ==
  /\ (fn = "morph" /\ pc = "done") =>
       blended = blendImages(distortImage(img1, seg1, seg2, t, a, b, p, absInt, UBFirst),
                             distortImage(img2, seg2, seg1, FSub(One, t), a, b, p, absInt, UBFirst),
                             FSub(One, t))
  /\ (fn = "morph" /\ pc \in {"call", "distort1", "distort2"}) => blended = NoImage
  /\ (fn = "morph" /\ pc = "blend") =>
       /\ Complete(distorted1) /\ Complete(distorted2)
       /\ hasSameDimsAs(distorted1, img1) /\ hasSameDimsAs(distorted2, img2)

\* C1 happens: a morph half way between two different feature arrays has returned its
\* image of the largest size
MorphReturned ==
  /\ fn = "morph" /\ pc = "done" /\ seg1 # seg2 /\ t = Half
  /\ blended.w = MaxW /\ blended.h = MaxH /\ Complete(blended)

\* C2: morph at t = 0 reproduces img1 and morph at t = 1 reproduces img2, every byte to
\* within a resampling tolerance of one grey level (stated for non-empty feature arrays and
\* runs without an undefined conversion).
MorphReproducesEndpoints ==
  (fn = "morph" /\ pc = "done" /\ Len(seg1) > 0 /\ convUB = {}) =>
    /\ t = Zero => \A i \in DOMAIN img1.buf :
                     blended.buf[i] - img1.buf[i] \in -1..1
    /\ t = One  => \A i \in DOMAIN img2.buf :
                     blended.buf[i] - img2.buf[i] \in -1..1

\* C3: distort(I, S, S, t, a, b, p) is byte for byte I (stated for non-empty arrays S of
\* segments of non-zero length and runs without an undefined conversion).
DistortWithEqualFeaturesIsIdentity ==
  (/\ fn = "distort" /\ pc = "done" /\ seg1 = seg2 /\ Len(seg1) > 0
   /\ \A i \in 1..Len(seg1) : ~IsPoint(seg1[i])
   /\ convUB = {}) =>
    distorted1 = img1

\* C4: with no features, or with total weight 0 at a pixel, the source location of the
\* pixel is the pixel itself, and distort(I, [], [], t, a, b, p) is I.
DistortWithoutFeaturesIsIdentity ==
  /\ (fn = "distort" /\ px # NoPx /\ (Len(seg1) = 0 \/ IsZero(px.wtsum))) =>
       px.src = PxAt
  /\ (fn = "distort" /\ pc = "done" /\ Len(seg1) = 0) =>
       distorted1 = img1

\* C5: a feature whose start segment or whose reference segment lerp(start, end, t) has
\* length zero weighs 0 at every pixel, and the pixel's source location and colour are
\* defined: no NaN, no undefined conversion.
ZeroLengthFeatureHasNoWeight ==
  (fn = "distort" /\ px # NoPx) =>
    \A i \in 1..Len(px.terms) :
      (IsPoint(seg1[i]) \/ IsPoint(px.terms[i].end_ln)) =>
        /\ FEq(px.terms[i].wt, Zero)
        /\ ~IsNaN(px.src.x) /\ ~IsNaN(px.src.y)
        /\ convUB = {}

\* the weight the reference segment ref gives pixel curr, with u and v as computed from ref
ReferenceWeight(ref, curr, u, v) ==
  FPow(FDiv(FPow(length(ref), p), FAdd(a, segmentDistance(ref, curr, u, v, absInt, UBFirst))), b)

\* C6: the weight of feature i at pixel X is (length(R_i)^p / (a + R_i.segmentDistance(X, u, v)))^b
\* with R_i = lerp(start_i, end_i, t), the segment u and v come from (stated for features
\* whose segments have non-zero length and runs without an undefined conversion).
WeightIsTakenFromReferenceSegment ==
  (fn = "distort" /\ px # NoPx /\ convUB = {}) =>
    \A i \in 1..Len(px.terms) :
      (~IsPoint(seg1[i]) /\ ~IsPoint(seg2[i]) /\ ~IsPoint(px.terms[i].end_ln)) =>
        px.terms[i].wt = ReferenceWeight(px.terms[i].end_ln, PxAt, px.terms[i].u, px.terms[i].v)

\* one feature of non-zero length whose end segment is its start segment moved by a constant
\* vector, with a = 0.5, b = 1, p = 0
IsTranslation ==
  /\ Len(seg1) = 1 /\ Len(seg2) = 1
  /\ ~IsPoint(seg1[1])
  /\ VSub(seg2[1].end, seg1[1].end) = VSub(seg2[1].start, seg1[1].start)
  /\ a = Half /\ b = One /\ p = Zero

\* the vector d of the translation
TranslationVector == VSub(seg2[1].start, seg1[1].start)

\* C7, as the code has it: under a translation of the single feature by d, pixel X is
\* sampled at X - t*d (to within 2^-40), which is X - d when t = 1.
TranslationSamplesAtTimeT ==
  (fn = "distort" /\ px # NoPx /\ IsTranslation) =>
    Near(px.src, VSub(PxAt, VScale(TranslationVector, t)))

\* C7 happens: a pixel has been computed half way through a translation by d # 0
TranslationHalfWay ==
  /\ fn = "distort" /\ px # NoPx /\ IsTranslation
  /\ ~(FEq(TranslationVector.x, Zero) /\ FEq(TranslationVector.y, Zero)) /\ t = Half
  /\ px.row = img1.h - 1 /\ px.col = img1.w - 1

\* C7, as stated: under a translation of the single feature by d, pixel X is sampled at
\* X - d, whatever t.
TranslationSamplesAtXMinusD ==
  (fn = "distort" /\ px # NoPx /\ IsTranslation) =>
    Near(px.src, VSub(PxAt, TranslationVector))

\* C8: blend(I, I, t) is byte for byte I.
BlendOfEqualImagesIsIdentity ==
  (fn = "blend" /\ pc = "done" /\ img1 = img2) => blended = img1

\* 2^k * (t*b1 + (1-t)*b2) for t = m * 2^-k, as an exact natural number
BlendNumerator(b1, b2, m, k) ==
  IF b1 >= b2 THEN BAdd(BShl(BFromInt(b2), k), BMulS(m, b1 - b2))
  ELSE BSub(BShl(BFromInt(b2), k), BMulS(m, b2 - b1))

\* floor(t*b1 + (1-t)*b2) over the reals, for a double t in [0, 1]
BlendExact(b1, b2, tt) ==
  IF IsZero(tt) THEN b2 ELSE BToInt(BShr(BlendNumerator(b1, b2, tt.m, -tt.e), -tt.e))

\* C9: every byte of blend(img1, img2, t) is floor(t*b1 + (1-t)*b2) of the bytes b1, b2
\* at its place, and lies in 0..255.
BlendIsFloorOfConvexCombination ==
  (fn = "blend" /\ pc = "done") =>
    \A i \in DOMAIN blended.buf :
      /\ blended.buf[i] = BlendExact(img1.buf[i], img2.buf[i], t)
      /\ blended.buf[i] \in 0..255

\* C10: at integer coordinates (x, y) inside the image, the last row and column included,
\* sampleBilinear returns in each stored channel the byte of pixel(row y, column x).
SampleAtIntegerIsPixel ==
  (fn = "sample" /\ pc = "done") =>
    \A x \in 0..(img1.w - 1), y \in 0..(img1.h - 1) :
      loc = Pt(x, y) =>
        \A ch \in 1..img1.nc : sampled.color[ch] = img1.buf[(y * img1.w + x) * img1.nc + ch]

\* C10 happens: the last pixel of the last row of a three-channel image with more than
\* one column and row has been sampled
SampledLastPixel ==
  /\ fn = "sample" /\ pc = "done"
  /\ img1.w > 1 /\ img1.h > 1 /\ img1.nc = 3
  /\ loc = Pt(img1.w - 1, img1.h - 1)

\* the pixel indices sampleBilinear has read lie inside the image
SampledInside ==
  /\ \A i \in 1..2 : sampled.rows[i] \in 0..(img1.h - 1) /\ sampled.cols[i] \in 0..(img1.w - 1)
  /\ \A i \in 1..2, j \in 1..2, ch \in 1..img1.nc :
       (sampled.rows[i] * img1.w + sampled.cols[j]) * img1.nc + ch \in DOMAIN img1.buf

\* C11: whatever the sample coordinate (far outside the image, beyond the range of int, NaN),
\* the four pixels sampleBilinear reads have their row in 0..h-1 and their column in 0..w-1,
\* and every byte read lies inside the buffer of w*h*c bytes.
SampleReadsInsideBuffer ==
  (fn = "sample" /\ pc = "done") => SampledInside

\* C11 happens: a sample far outside the image, on both axes, has been taken from an image
\* with more than one row and column
SampledFarOutside ==
  /\ fn = "sample" /\ pc = "done"
  /\ loc = Pt(-1000, 1000) /\ img1.w > 1 /\ img1.h > 1 /\ img1.nc = 3

\* the index i clamped into 0..n-1
ClampIndex(i, n) == Max(0, Min(i, n - 1))

\* C12: each of col0, col1 = col0 + 1, row0, row1 = row0 + 1 is clamped on its own into the
\* image, so a sample left of the image (col1 <= 0) reads column 0 only and a sample above
\* it (row1 <= 0) reads row 0 only.
LatticeClampedIndependently ==
  (fn = "sample" /\ pc = "done" /\ convUB = {} /\ img1.nc > 0) =>
    /\ sampled.rows = <<ClampIndex(sampled.raw[1], img1.h), ClampIndex(sampled.raw[2], img1.h)>>
    /\ sampled.cols = <<ClampIndex(sampled.raw[3], img1.w), ClampIndex(sampled.raw[4], img1.w)>>

\* four times the weighted sum of the corner bytes for a sample whose offsets from col0 and
\* row0 are fx/2 and fy/2, each corner with the weight the sampler gives it
CornerSum(p00, p01, p10, p11, fx, fy) ==
  p00 * (2 - fx) * (2 - fy) + p01 * (2 - fx) * fy + p10 * fx * (2 - fy) + p11 * fx * fy

\* the byte of channel ch (from 1) at the i-th row and j-th column sampleBilinear has read
CornerByte(i, j, ch) ==
  img1.buf[(sampled.rows[i] * img1.w + sampled.cols[j]) * img1.nc + ch]

\* twice the coordinates on the half-integer lattice that are sampled
HalfSteps == (-2..(2 * Max(MaxW, MaxH))) \cup {-2000, 2000}

SampleInterpolatesAlongRow ==
  (fn = "sample" /\ pc = "done") =>
    \A c \in 0..(img1.w - 2), y \in 0..(img1.h - 1) :
      loc = Vec2(Dyadic(2 * c + 1, -1), FromInt(y)) =>
        \A ch \in 1..img1.nc :
          sampled.color[ch] =
            (img1.buf[(y * img1.w + c) * img1.nc + ch]
               + img1.buf[(y * img1.w + c + 1) * img1.nc + ch]) \div 2

\* C15: sampled_color has its 4 slots filled: the channels of the image in the first c,
\* 0 in every slot from c on, for c in 0..4.
SampleFillsFourSlots ==
  (fn = "sample" /\ pc = "done" /\ img1.nc <= 4) =>
    /\ DOMAIN sampled.color = 1..4
    /\ \A i \in 1..4 : IF i <= img1.nc THEN sampled.color[i] \in 0..255
                       ELSE sampled.color[i] = 0

\* C15 happens: an image of one channel has been sampled inside and the channel is not 0
SampledOneChannel ==
  /\ fn = "sample" /\ pc = "done"
  /\ img1.nc = 1 /\ loc = Pt(0, 0) /\ sampled.color[1] # 0


\* the call breaks the contract of the function called
ContractBroken ==
  \/ fn \in {"distort", "morph"} /\ Len(seg1) # Len(seg2)
  \/ fn \in {"blend", "morph"} /\ (img1.w # img2.w \/ img1.h # img2.h \/ img1.nc # img2.nc)

\* C16: distort with feature arrays of different lengths, and blend and morph with images
\* that differ in width, height or channel count, abort: no image is allocated, no pixel is
\* computed, nothing is returned; and no other call aborts.
ContractViolationAborts ==
  /\ ContractBroken =>
       /\ pc \in {"call", "aborted"}
       /\ distorted1 = NoImage /\ distorted2 = NoImage /\ blended = NoImage /\ px = NoPx
  /\ pc = "aborted" => ContractBroken

\* C16 happens: a morph of images that differ in the channel count only has aborted
MorphAborted ==
  /\ fn = "morph" /\ pc = "aborted"
  /\ img1.w = img2.w /\ img1.h = img2.h /\ img1.nc # img2.nc
  /\ Len(seg1) = Len(seg2)


\* a step of the pixel loop of distort writes the bytes of pixel (row, col), unwritten until
\* then, and no other byte
DistortStepWritesOnePixel ==
  (pc = "distort1" /\ pc' = "distort1") =>
    \A i \in DOMAIN distorted1.buf :
      IF i > (row * img1.w + col) * img1.nc /\ i <= (row * img1.w + col) * img1.nc + img1.nc
      THEN distorted1.buf[i] = Uninit /\ distorted1'.buf[i] \in 0..255
      ELSE distorted1'.buf[i] = distorted1.buf[i]

\* the steps of a distort call: the result is allocated unwritten with the dimensions of the
\* input, filled pixel by pixel and returned as it is; the inputs stay as they are
DistortStep ==
  /\ img1' = img1 /\ seg1' = seg1 /\ seg2' = seg2
  /\ (pc = "call" /\ pc' = "distort1") =>
       /\ distorted1'.w = img1.w /\ distorted1'.h = img1.h /\ distorted1'.nc = img1.nc
       /\ DOMAIN distorted1'.buf = 1..(img1.w * img1.h * img1.nc)
       /\ \A i \in DOMAIN distorted1'.buf : distorted1'.buf[i] = Uninit
  /\ DistortStepWritesOnePixel
  /\ (pc = "distort1" /\ pc' = "done") => distorted1' = distorted1

\* C17: distort returns a new image with the width, height and channel count of its input,
\* every one of its w*h*c bytes written exactly once, and leaves the input image and both
\* segment arrays unchanged.
DistortFillsFreshImage ==
  /\ []((fn = "distort" /\ pc = "done") =>
          /\ distorted1.w = img1.w /\ distorted1.h = img1.h /\ distorted1.nc = img1.nc
          /\ DOMAIN distorted1.buf = 1..(img1.w * img1.h * img1.nc)
          /\ Complete(distorted1))
  /\ [][fn = "distort" => DistortStep]_vars

\* C17 happens: distort has returned the warp of a three-channel image of the largest size
DistortReturnedThreeChannels ==
  /\ fn = "distort" /\ pc = "done" /\ Len(seg1) > 0
  /\ img1.w = MaxW /\ img1.h = MaxH /\ img1.nc = 3

MainCallsMorphWithTimeInRange ==
  /\ (argv # << >> /\ pc = "driver") =>
       t = (IF FLt(atof(argv[5]), Zero) THEN Zero
            ELSE IF FGt(atof(argv[5]), One) THEN One ELSE atof(argv[5]))
  /\ (argv # << >> /\ fn = "morph") => (FLe(Zero, t) /\ FLe(t, One))

\* C20: after any sequence of Image operations (construction with dimensions, resize,
\* assignment, a load that succeeds or fails) the buffer holds exactly w * h * nc bytes, so
\* pixel(row, col) of every pixel of the image addresses allocated bytes.
BufferHoldsAllPixels ==
  fn = "image" =>
    /\ Len(img1.buf) = img1.w * img1.h * img1.nc
    /\ \A r \in 0..(img1.h - 1), c \in 0..(img1.w - 1), ch \in 1..img1.nc :
         pixel(img1, r, c) + ch \in DOMAIN img1.buf

\* the distance the claim names for a point with local coordinates u, v of a feature: to the
\* start point outside [0, 1], |v| inside
NamedDistance(seg, pt, u, v) ==
  IF FLt(u, Zero) \/ FGt(u, One) THEN FSqrt(FAdd(FMul(FSub(pt.x, seg.start.x), FSub(pt.x, seg.start.x)),
                                                 FMul(FSub(pt.y, seg.start.y), FSub(pt.y, seg.start.y))))
  ELSE [v EXCEPT !.s = 1]

\* C21: segmentDistance(p, u, v) is the Euclidean distance from p to the start point of the
\* segment both for u < 0 and for u > 1, and |v| for 0 <= u <= 1.
SegmentDistanceIsToStartOrLine ==
  (fn = "distort" /\ px # NoPx) =>
    \A i \in 1..Len(px.terms) :
      (~IsNaN(px.terms[i].u) /\ ~IsNaN(px.terms[i].v)) =>
        \A ub \in UBInts :
          segmentDistance(seg1[i], Vec2(FromInt(px.col), FromInt(px.row)),
                          px.terms[i].u, px.terms[i].v, absInt, ub)
            = NamedDistance(seg1[i], Vec2(FromInt(px.col), FromInt(px.row)),
                            px.terms[i].u, px.terms[i].v)

\* a step that is a call resize(w_, h_, nc_) on img1
ResizeStep ==
  IF img1.w = last'.args[1] /\ img1.h = last'.args[2] /\ img1.nc = last'.args[3]
  THEN last'.ret = TRUE /\ img1' = img1
  ELSE IF last'.args[1] < 0 \/ last'.args[2] < 0 \/ last'.args[3] < 0
  THEN last'.ret = FALSE /\ img1' = img1
  ELSE /\ last'.ret = TRUE
       /\ img1'.w = last'.args[1] /\ img1'.h = last'.args[2] /\ img1'.nc = last'.args[3]

\* C22: resize with the current dimensions returns true and leaves the pixel data unchanged;
\* with a negative dimension it returns false and leaves w, h, nc and the buffer unchanged;
\* otherwise it returns true and the image has exactly the requested dimensions.
ResizeKeepsRejectsOrSets ==
  [][(fn = "image" /\ last'.op = "resize") => ResizeStep]_vars

\* C22 happens: a resize with a negative dimension was rejected on an image that holds pixels
ResizeRejected ==
  /\ fn = "image" /\ last.op = "resize" /\ last.ret = FALSE
  /\ img1.buf # << >> /\ \A i \in DOMAIN img1.buf : img1.buf[i] # Uninit

\* C23: for a segment S of non-zero length and a point X, S.start + u * S.direction
\* + v * S.perp / S.length with u = S.lineParameter(X), v = S.signedLineDistance(X) is X: a
\* feature of distort whose reference segment is its start segment has displacement 0 at
\* every pixel.
RoundTripThroughLocalCoordinates ==
  (fn = "distort" /\ px # NoPx) =>
    \A i \in 1..Len(px.terms) :
      (px.terms[i].end_ln = seg1[i] /\ ~IsPoint(seg1[i])) =>
        /\ FEq(px.terms[i].u, lineParameter(seg1[i], PxAt))
        /\ FEq(px.terms[i].v, signedLineDistance(seg1[i], PxAt))
        /\ FEq(px.terms[i].dis.x, Zero) /\ FEq(px.terms[i].dis.y, Zero)

\* the corner bytes sampleBilinear has read for channel ch (from 1)
CornerBytes(ch) == {CornerByte(i, j, ch) : i \in 1..2, j \in 1..2}

\* C24: every channel value sampleBilinear returns lies between the least and the greatest of
\* the four corner bytes it read, for every coordinate, and the clamp to [0, 255] never
\* changes a value.
SampleStaysBetweenCorners ==
  (fn = "sample" /\ pc = "done" /\ img1.w > 0 /\ img1.h > 0) =>
    \A ch \in 1..Min(img1.nc, 4) :
      /\ \E lo \in CornerBytes(ch) : lo <= sampled.color[ch]
      /\ \E hi \in CornerBytes(ch) : sampled.color[ch] <= hi
      /\ \A ub \in UBChoices(sampled.ok) :
           ToInt(BilinearFloors(img1, loc, sampled.raw[1], sampled.raw[3],
                                sampled.rows, sampled.cols)[ch - 1], ub) = sampled.color[ch]

\* C25: sampleBilinear writes only to the indices 0..3 of sampled_color (the slots 1..4 of
\* the model), whatever the channel count of the image, also when it is greater than 4.
SampleWritesFourSlotsOnly ==
  (fn = "sample" /\ pc = "done") => DOMAIN sampled.color \subseteq 1..4

\* the steps of morphDriver in the order of the program text
DriverOrder == <<"load1", "load2", "dims", "segments", "morph", "save">>

\* C26: morphDriver takes its steps in a fixed order and stops at the first failure:
\* morphImages is invoked only after both images are loaded, their dimensions found identical
\* and the segments read; save is attempted only after morphImages has returned; morphDriver
\* returns true if and only if every step, save included, succeeded, and no output file is
\* written after an earlier failure.
MorphDriverStopsAtFirstFailure ==
  /\ (argv # << >> /\ last.op = "morphDriver") =>
       /\ Len(last.args) <= Len(DriverOrder)
       /\ \A i \in 1..Len(last.args) :
            /\ last.args[i][1] = DriverOrder[i]
            /\ i < Len(last.args) => last.args[i][2]
  /\ (argv # << >> /\ fn = "morph") =>
       /\ last.op = "morphDriver" /\ Len(last.args) = 5
       /\ img1.buf # << >> /\ img2.buf # << >>
       /\ img1.w = img2.w /\ img1.h = img2.h /\ img1.nc = img2.nc
       /\ pc # "aborted"
  /\ (argv # << >> /\ pc = "returned") =>
       /\ Len(last.args) = 6
       /\ blended.w = img1.w /\ blended.h = img1.h /\ Complete(blended)
  /\ (argv # << >> /\ pc \in {"failed", "returned"}) =>
       /\ last.op = "morphDriver"
       /\ last.ret <=> (Len(last.args) = 6 /\ \A i \in 1..6 : last.args[i][2])
       /\ pc = "failed" => \A i \in 1..Len(last.args) : last.args[i][1] # "save"

\* C26 happens: morphDriver has returned false because the save of the morphed image failed
DriverSaveFailed ==
  /\ pc = "returned" /\ last.op = "morphDriver" /\ ~last.ret
  /\ argv[6] = "out.png" /\ Complete(blended) /\ blended.w = MaxW

\* C27: the exit status of main tells failure from success: it is 0 exactly when morphDriver
\* returned true, that is when the output image was saved.
ExitStatusTellsFailure ==
  (argv # << >> /\ pc = "exit") => ((last.ret = 0) <=> last.args[1].ret)

\* the file starts with a count n and n lines of 8 numbers follow it
WellFormedFile ==
  /\ file.open /\ Len(file.lines) >= 1 /\ Len(file.lines[1]) >= 1
  /\ file.lines[1][1] >= 0 /\ Len(file.lines) >= 1 + file.lines[1][1]
  /\ \A k \in 2..(1 + file.lines[1][1]) : Len(file.lines[k]) >= 8

\* C28: loadSegments returns true if and only if the first line of the file parses as a count
\* n and n following lines each parse as 8 numbers; on every return seg1 and seg2 have equal
\* length and hold only pairs read by this call, pair i of both from the same line.
LoadSegmentsReadsCountedPairs ==
  (fn = "load" /\ pc = "done") =>
    /\ last.ret <=> WellFormedFile
    /\ Len(seg1) = Len(seg2)
    /\ Len(seg1) = 0 \/ Len(seg1) < Len(file.lines)
    /\ \A i \in 1..Len(seg1) :
         /\ Len(file.lines[i + 1]) >= 8
         /\ seg1[i] = Seg(file.lines[i + 1][1], file.lines[i + 1][2],
                          file.lines[i + 1][3], file.lines[i + 1][4])
         /\ seg2[i] = Seg(file.lines[i + 1][5], file.lines[i + 1][6],
                          file.lines[i + 1][7], file.lines[i + 1][8])

\* the press at e is accepted when n segments are stored
PressAccepted(e, n) ==
  \/ (n % 2 = 0 /\ e[1] < SourceWidth)
  \/ (n % 2 = 1 /\ e[1] >= SourceWidth + HSEP)

\* the events delivered end with an accepted press at index i followed by drags alone, at least
\* one of them
StrokeSince(i) ==
  /\ i < Len(editor.events)
  /\ editor.events[i][1] = "pressed"
  /\ PressAccepted(editor.events[i][2], Len(editor.segments))
  /\ \A k \in (i + 1)..Len(editor.events) : editor.events[k][1] = "dragged"

\* C29: the segment list changes only by one segment appended in a mouseReleased, after an
\* accepted mousePressed and at least one mouseDragged since that press; the press of a segment
\* of even index lies left of the source image's width and is stored as it is, the press of a
\* segment of odd index lies at or right of the source width plus HSEP and is stored with that
\* offset subtracted
SegmentsGrowByCompletedStrokes ==
  [][(fn = "editor" /\ editor'.segments # editor.segments) =>
       /\ Len(editor'.segments) = Len(editor.segments) + 1
       /\ SubSeq(editor'.segments, 1, Len(editor.segments)) = editor.segments
       /\ editor'.events[Len(editor'.events)][1] = "released"
       /\ \E i \in 1..Len(editor.events) :
            /\ StrokeSince(i)
            /\ editor'.segments[Len(editor'.segments)][1] =
                 editor.events[i][2][1]
                   - (IF Len(editor.segments) % 2 = 1 THEN SourceWidth + HSEP ELSE 0)
            /\ editor'.segments[Len(editor'.segments)][3] =
                 editor.events[Len(editor.events)][2][1]
                   - (IF Len(editor.segments) % 2 = 1 THEN SourceWidth + HSEP ELSE 0)]_vars

\* a segment of the target image drawn from its first column has been added behind a segment
\* of the source image
TargetSegmentAdded ==
  /\ fn = "editor"
  /\ Len(editor.events) >= 6
  /\ editor.events[Len(editor.events)][1] = "released"
  /\ Len(editor.segments) = 2
  /\ editor.segments[1] = <<SourceWidth - 1, 0, SourceWidth - 1, 1>>
  /\ editor.segments[2] = <<0, 0, 0, 1>>

\* the file saved last holds its count and that many lines, each the pair of two segments stored
SavedPairs ==
  editor.saved # << >> =>
    /\ Len(editor.saved) = 1 + editor.saved[1][1]
    /\ 2 * editor.saved[1][1] <= Len(editor.segments)
    /\ \A k \in 1..editor.saved[1][1] :
         editor.saved[k + 1] = editor.segments[2 * k - 1] \o editor.segments[2 * k]

\* C30: a file is written only when the number of segments is even; its first line is half
\* that number and it is followed by exactly that many lines, each the pair of a source segment
\* and its target segment; no line holds the zero segment in place of a missing partner
SavedFileHoldsCompletePairs ==
  /\ [](fn = "editor" => SavedPairs)
  /\ [][(fn = "editor" /\ editor'.saved # editor.saved) =>
          /\ Len(editor'.segments) % 2 = 0
          /\ editor'.saved[1][1] = Len(editor'.segments) \div 2]_vars

\* a file of two pairs has been written
TwoPairsSaved ==
  /\ fn = "editor"
  /\ Len(editor.segments) = 4
  /\ Len(editor.saved) = 3
  /\ editor.saved[1] = <<2>>

=============================================================================
